---- MODULE Spec2Model ----
(***************************************************************************)
(* Payment-and-entitlement state machine of YunoB.                         *)
(*                                                                         *)
(* The flat one-time "Pro" payment model: the payments ledger and the      *)
(* users table, written by POST /submit-payment (routes/paymentFlow.js),   *)
(* POST /payments/:paymentId/approve and /reject (the admin payment        *)
(* router) and read by GET /pro-status.                                    *)
(*                                                                         *)
(* The plan-based subscription model: the user_trials and                  *)
(* payment_submissions tables, written by POST /start-trial, /skip-trial   *)
(* and /submit-payment (routes/subscriptionRoute.js) under the schema of   *)
(* initDB (config/db.js).  The two models share no table; each             *)
(* specification runs one of them and leaves the other at rest.            *)
(*                                                                         *)
(* The store handle is neon(DATABASE_URL) (config/db.js:13): every         *)
(* sql`...` call is one HTTP round trip that runs as its own autocommitted *)
(* statement.  No handler opens a transaction, so a row lock taken by      *)
(* SELECT ... FOR UPDATE ends with that statement, and the statements of   *)
(* concurrent requests interleave freely.  One action of the model is one  *)
(* statement together with the synchronous code that follows it up to the  *)
(* next await.  A statement may also fail (connectivity), which throws     *)
(* into the handler's catch block.                                         *)
(***************************************************************************)
EXTENDS Integers, Sequences, FiniteSets, TLC

\* ---------------------------------------------------------------- bounds
NReq == 2
MaxPayments == 2
\* Two approvals write four timestamps after the initial instant.
MaxTime == 5

Req == 1..NReq
Users == {"u1", "u2"}
TxIds == {"TX1", "TX2"}
Admins == {"admin_1"}
Reasons == {"", "unverifiable"}
\* The wider input of the one-request-at-a-time specification.
SeqReasons == Reasons \cup {"duplicate"}
Amounts == {0, 200}
PaymentIds == 1..MaxPayments
NULL == 0

\* ------------------------------------------------------- response bodies
MissingFields == "Missing required fields"
AlreadyPro == "User already has Pro status"
PendingExists == "Pending payment exists"
TxUsed == "Transaction ID already used"
Submitted == "Payment submitted successfully. Waiting for admin approval."
SubmitFailed == "Failed to submit payment"
NotFound == "Payment not found"
AlreadyApproved == "Payment already approved"
InvalidStatus == "Invalid payment status"
Approved == "Payment approved and user upgraded to Pro"
ApproveFailed == "Failed to approve payment"
ReasonRequired == "Rejection reason required"
AlreadyRejected == "Payment already rejected"
Rejected == "Payment rejected successfully"
RejectFailed == "Failed to reject payment"
IsProMsg == "User has Pro status"
NotProMsg == "User is not Pro"
ProStatusFailed == "Failed to check Pro status"

\* payments, users : the two tables.  req : the requests being handled, one
\* per slot.  now : CURRENT_TIMESTAMP, a logical clock that every stamping
\* statement advances, so that two statements never write the same stamp.
\* approveOk : the users for whom an approve call has answered success.
VARIABLES payments, users, req, now, approveOk

\* The plan-based subscription model (routes/subscriptionRoute.js).
\* user_trials, payment_submissions : its tables, rows in insertion order
\* (id SERIAL).  preq : the requests being handled.  clock : the wall clock
\* in days, read by new Date() and CURRENT_TIMESTAMP.
VARIABLES user_trials, payment_submissions, preq, clock

\* The admin routers (routes/adminSubscriptionRoute.js and the second router
\* of routes/paymentFlow.js).  user_subscriptions : the table of subscription
\* periods, rows in insertion order.  areq : the admin requests being handled.
VARIABLES user_subscriptions, areq

\* call : the running call of sqlWithRetry or testConnection (config/db.js),
\* if any.
VARIABLES call

\* The read-only requests being handled: oreq, a GET /onboarding-status of
\* the subscription router; sreq, a GET /stats of the flat admin router;
\* mreq, a GET /my-subscription of the subscription router; hreq, a GET
\* /payment-history of either router.
VARIABLES oreq, sreq, mreq, hreq

flatVars == <<payments, users, req, now, approveOk>>
planVars == <<user_trials, payment_submissions, preq, clock>>
\* What the handlers of the flat model, and of the subscription router, leave
\* alone.
adminVars == <<user_subscriptions, areq>>
readVars == <<oreq, sreq, mreq, hreq>>
nonFlatVars == <<planVars, adminVars, call, readVars>>
nonPlanVars == <<flatVars, adminVars, call, readVars>>
vars == <<flatVars, planVars, adminVars, call, readVars>>

\* A request slot that holds no request.
Idle ==
  [op |-> "idle", pc |-> "idle", clerk_user_id |-> "", amount |-> 0,
   transaction_id |-> "", paymentId |-> 0, admin_id |-> "",
   rejection_reason |-> "", resp |-> "", dup |-> FALSE, after |-> FALSE]

NoUser == [is_pro |-> FALSE, pro_since |-> NULL, present |-> FALSE]

\* A request slot of the subscription router that holds no request.
PIdle ==
  [op |-> "idle", pc |-> "idle", user_id |-> "", plan_id |-> 0, amount |-> "",
   transaction_code |-> "", trialStart |-> NULL, trialEnd |-> NULL, resp |-> ""]

\* A request slot of the admin routers that holds no request.
AIdle ==
  [op |-> "idle", pc |-> "idle", paymentId |-> 0, userId |-> "", admin_token |-> "",
   rejection_reason |-> "", user_id |-> "", plan_id |-> 0, durationDays |-> 0,
   endDate |-> NULL, sub |-> NULL, resp |-> ""]

\* No onboarding-status request, no stats request.
OIdle ==
  [pc |-> "idle", user_id |-> "", pending |-> {}, existingTrial |-> <<>>,
   existingSubscription |-> <<>>, resp |-> ""]

SIdle ==
  [pc |-> "idle", pending |-> {}, revenue |-> {}, pendingPayments |-> {},
   totalPayments |-> {}, proUsers |-> {}, resp |-> ""]

\* No my-subscription request, no payment-history request.
MIdle ==
  [pc |-> "idle", user_id |-> "", pending |-> {}, activeTrial |-> <<>>,
   subscription |-> <<>>, resp |-> ""]

HIdle == [pc |-> "idle", router |-> "", user_id |-> "", resp |-> <<>>, error |-> ""]

\* No call of sqlWithRetry or testConnection is running.
NoCall ==
  [pc |-> "idle", fn |-> "", query |-> "", maxRetries |-> 0, attempt |-> 0,
   errors |-> <<>>, outcome |-> ""]

Init ==
  /\ payments = <<>>
  /\ users = [u \in Users |-> NoUser]
  /\ req = [r \in Req |-> Idle]
  /\ now = 1
  /\ approveOk = {}
  /\ user_trials = <<>>
  /\ payment_submissions = <<>>
  /\ preq = [r \in Req |-> PIdle]
  /\ clock = 1
  /\ user_subscriptions = <<>>
  /\ areq = [r \in Req |-> AIdle]
  /\ call = NoCall
  /\ oreq = OIdle
  /\ sreq = SIdle
  /\ mreq = MIdle
  /\ hreq = HIdle

\* ------------------------------------------------------------- queries
\* A pending-payment lookup without the clerk_user_id filter.
existingPending_anyUser(clerk_user_id) ==
  {i \in DOMAIN payments : payments[i].status = "pending"}

\* SELECT id FROM payments WHERE clerk_user_id = $1 AND status = 'pending'
existingPending(clerk_user_id) ==
  {i \in DOMAIN payments :
     payments[i].clerk_user_id = clerk_user_id /\ payments[i].status = "pending"}

\* A lookup that sees only the transaction ids of pending payments.
existingTransaction_pendingOnly(transaction_id) ==
  {i \in DOMAIN payments :
     payments[i].transaction_id = transaction_id /\ payments[i].status = "pending"}

\* SELECT id FROM payments WHERE transaction_id = $1
existingTransaction(transaction_id) ==
  {i \in DOMAIN payments : payments[i].transaction_id = transaction_id}

\* SELECT is_pro FROM users WHERE clerk_user_id = $1; user.length > 0 && user[0].is_pro
userIsPro(clerk_user_id) ==
  users[clerk_user_id].present /\ users[clerk_user_id].is_pro

\* A validation that tests the transaction id only.
missingFields_txOnly(amount, transaction_id) ==
  transaction_id = ""

\* Input validation of submit-payment: !amount || !transaction_id
missingFields(amount, transaction_id) ==
  amount = 0 \/ transaction_id = ""

\* An approve handler without the idempotency test.
approveCheck_noIdempotency(status) ==
  IF status \notin {"pending", "approved"} THEN InvalidStatus ELSE "proceed"

\* A reject handler without the status # 'pending' test.
rejectCheck_noStatusGuard(status) ==
  IF status = "rejected" THEN AlreadyRejected ELSE "proceed"

\* The two status tests of the approve handler after the row is read.
approveCheck(status) ==
  IF status = "approved" THEN AlreadyApproved
  ELSE IF status # "pending" THEN InvalidStatus
  ELSE "proceed"

\* A reject handler that writes again over a payment already rejected.
rejectCheck_overwrite(status) ==
  IF status = "approved" THEN InvalidStatus ELSE "proceed"

\* The two status tests of the reject handler after the row is read.
rejectCheck(status) ==
  IF status = "rejected" THEN AlreadyRejected
  ELSE IF status # "pending" THEN InvalidStatus
  ELSE "proceed"

InFlightSubmits == Cardinality({r \in Req : req[r].op = "submit" /\ req[r].pc # "done"})

\* res.json(...): the handler ends; its locals are dead, the response and the
\* request as it was sent by an admin (operation, addressed payment, admin,
\* reason) remain until delivered.
finish(r, msg) ==
  [req EXCEPT ![r] = [Idle EXCEPT !.op = req[r].op, !.pc = "done", !.resp = msg,
                                  !.paymentId = req[r].paymentId,
                                  !.admin_id = req[r].admin_id,
                                  !.rejection_reason = req[r].rejection_reason,
                                  !.dup = req[r].dup, !.after = req[r].after]]

\* Request slots are interchangeable: a new request takes the lowest free one.
FreeSlot(r) ==
  /\ req[r].pc = "idle"
  /\ \A q \in Req : q < r => req[q].pc # "idle"

\* ------------------------------------------------- POST /submit-payment
StartSubmit(r, u, amount, tx) ==
  /\ FreeSlot(r)
  /\ Len(payments) + InFlightSubmits < MaxPayments
  /\ LET q == [Idle EXCEPT !.op = "submit", !.clerk_user_id = u, !.amount = amount,
                           !.transaction_id = tx,
                           !.dup = (\E i \in DOMAIN payments :
                                      payments[i].transaction_id = tx)]
     IN req' = [req EXCEPT ![r] =
                  IF missingFields(amount, tx)
                  THEN [Idle EXCEPT !.op = "submit", !.pc = "done", !.resp = MissingFields,
                                    !.dup = q.dup]
                  ELSE [q EXCEPT !.pc = "s_user"]]
  /\ UNCHANGED <<payments, users, now, approveOk>>
  /\ UNCHANGED nonFlatVars

SubmitSelectUser(r) ==
  /\ req[r].pc = "s_user"
  /\ req' = IF userIsPro(req[r].clerk_user_id)
            THEN finish(r, AlreadyPro)
            ELSE [req EXCEPT ![r].pc = "s_pending"]
  /\ UNCHANGED <<payments, users, now, approveOk>>
  /\ UNCHANGED nonFlatVars

SubmitSelectPending(r) ==
  /\ req[r].pc = "s_pending"
  /\ req' = IF existingPending(req[r].clerk_user_id) # {}
            THEN finish(r, PendingExists)
            ELSE [req EXCEPT ![r].pc = "s_tx"]
  /\ UNCHANGED <<payments, users, now, approveOk>>
  /\ UNCHANGED nonFlatVars

SubmitSelectTransaction(r) ==
  /\ req[r].pc = "s_tx"
  /\ req' = IF existingTransaction(req[r].transaction_id) # {}
            THEN finish(r, TxUsed)
            ELSE [req EXCEPT ![r].pc = "s_insert"]
  /\ UNCHANGED <<payments, users, now, approveOk>>
  /\ UNCHANGED nonFlatVars

newPayment(clerk_user_id, amount, transaction_id) ==
  [clerk_user_id |-> clerk_user_id, amount |-> amount,
   transaction_id |-> transaction_id, status |-> "pending",
   admin_id |-> "", rejection_reason |-> "", processed_at |-> NULL]

SubmitInsert(r) ==
  /\ req[r].pc = "s_insert"
  /\ payments' = Append(payments,
                   newPayment(req[r].clerk_user_id, req[r].amount, req[r].transaction_id))
  /\ req' = finish(r, Submitted)
  /\ UNCHANGED <<users, now, approveOk>>
  /\ UNCHANGED nonFlatVars

\* --------------------------------------- POST /payments/:paymentId/approve
StartApprove(r, paymentId, admin_id) ==
  /\ FreeSlot(r)
  /\ req' = [req EXCEPT ![r] = [Idle EXCEPT !.op = "approve", !.pc = "a_select",
                                            !.paymentId = paymentId,
                                            !.admin_id = admin_id]]
  /\ UNCHANGED <<payments, users, now, approveOk>>
  /\ UNCHANGED nonFlatVars

ApproveSelect(r) ==
  /\ req[r].pc = "a_select"
  /\ LET id == req[r].paymentId IN
     IF id \notin DOMAIN payments
     THEN /\ req' = finish(r, NotFound)
          /\ UNCHANGED approveOk
     ELSE LET paymentData == payments[id]
              c == approveCheck(paymentData.status) IN
          IF c = "proceed"
          THEN /\ req' = [req EXCEPT ![r].pc = "a_update",
                                     ![r].clerk_user_id = paymentData.clerk_user_id]
               /\ UNCHANGED approveOk
          ELSE /\ req' = finish(r, c)
               /\ approveOk' = IF c = AlreadyApproved
                               THEN approveOk \cup {paymentData.clerk_user_id}
                               ELSE approveOk
  /\ UNCHANGED <<payments, users, now>>
  /\ UNCHANGED nonFlatVars

\* An UPDATE that also clears the amount column.
approveRow_clearsAmount(row, admin_id) ==
  [row EXCEPT !.status = "approved", !.admin_id = admin_id, !.processed_at = now,
              !.amount = 0]

\* UPDATE payments SET status = 'approved', admin_id, processed_at WHERE id = $1
approveRow(row, admin_id) ==
  [row EXCEPT !.status = "approved", !.admin_id = admin_id, !.processed_at = now]

ApproveUpdate(r) ==
  /\ req[r].pc = "a_update"
  /\ now < MaxTime
  /\ now' = now + 1
  /\ payments' = [payments EXCEPT ![req[r].paymentId] = approveRow(@, req[r].admin_id)]
  /\ req' = [req EXCEPT ![r].pc = "a_upsert"]
  /\ UNCHANGED <<users, approveOk>>
  /\ UNCHANGED nonFlatVars

\* INSERT INTO users ... ON CONFLICT (clerk_user_id) DO UPDATE SET is_pro, pro_since
upsertPro(row) ==
  [is_pro |-> TRUE, pro_since |-> now, present |-> TRUE]

ApproveUpsert(r) ==
  /\ req[r].pc = "a_upsert"
  /\ now < MaxTime
  /\ now' = now + 1
  /\ users' = [users EXCEPT ![req[r].clerk_user_id] = upsertPro(@)]
  /\ req' = finish(r, Approved)
  /\ approveOk' = approveOk \cup {req[r].clerk_user_id}
  /\ UNCHANGED payments
  /\ UNCHANGED nonFlatVars

\* ---------------------------------------- POST /payments/:paymentId/reject
StartReject(r, paymentId, admin_id, rejection_reason) ==
  /\ FreeSlot(r)
  /\ LET q == [Idle EXCEPT !.op = "reject", !.paymentId = paymentId,
                           !.admin_id = admin_id,
                           !.rejection_reason = rejection_reason]
     IN req' = [req EXCEPT ![r] =
                  IF rejection_reason = ""
                  THEN [Idle EXCEPT !.op = "reject", !.pc = "done", !.resp = ReasonRequired,
                                    !.paymentId = paymentId]
                  ELSE [q EXCEPT !.pc = "r_select"]]
  /\ UNCHANGED <<payments, users, now, approveOk>>
  /\ UNCHANGED nonFlatVars

\* A reject handler that answers a missing payment like a rejected one.
RejectSelect_missingIsRejected(r) ==
  /\ req[r].pc = "r_select"
  /\ LET id == req[r].paymentId IN
     IF id \notin DOMAIN payments
     THEN req' = finish(r, AlreadyRejected)
     ELSE LET paymentData == payments[id]
              c == rejectCheck(paymentData.status) IN
          IF c = "proceed"
          THEN req' = [req EXCEPT ![r].pc = "r_update"]
          ELSE req' = finish(r, c)
  /\ UNCHANGED <<payments, users, now, approveOk>>
  /\ UNCHANGED nonFlatVars

RejectSelect(r) ==
  /\ req[r].pc = "r_select"
  /\ LET id == req[r].paymentId IN
     IF id \notin DOMAIN payments
     THEN req' = finish(r, NotFound)
     ELSE LET paymentData == payments[id]
              c == rejectCheck(paymentData.status) IN
          IF c = "proceed"
          THEN req' = [req EXCEPT ![r].pc = "r_update"]
          ELSE req' = finish(r, c)
  /\ UNCHANGED <<payments, users, now, approveOk>>
  /\ UNCHANGED nonFlatVars

\* An UPDATE that leaves the rejection_reason column as it was.
rejectRow_noReason(row, admin_id, rejection_reason) ==
  [row EXCEPT !.status = "rejected", !.admin_id = admin_id, !.processed_at = now]

\* UPDATE payments SET status = 'rejected', admin_id, rejection_reason, processed_at
rejectRow(row, admin_id, rejection_reason) ==
  [row EXCEPT !.status = "rejected", !.admin_id = admin_id,
              !.rejection_reason = rejection_reason, !.processed_at = now]

RejectUpdate(r) ==
  /\ req[r].pc = "r_update"
  /\ now < MaxTime
  /\ now' = now + 1
  /\ payments' = [payments EXCEPT ![req[r].paymentId] =
                    rejectRow(@, req[r].admin_id, req[r].rejection_reason)]
  /\ req' = finish(r, Rejected)
  /\ UNCHANGED <<users, approveOk>>
  /\ UNCHANGED nonFlatVars

\* ------------------------------------------------------ GET /pro-status
StartProStatus(r, u) ==
  /\ FreeSlot(r)
  /\ req' = [req EXCEPT ![r] = [Idle EXCEPT !.op = "pro-status", !.pc = "g_select",
                                            !.clerk_user_id = u,
                                            !.after = (u \in approveOk)]]
  /\ UNCHANGED <<payments, users, now, approveOk>>
  /\ UNCHANGED nonFlatVars

ProStatusSelect(r) ==
  /\ req[r].pc = "g_select"
  /\ LET u == req[r].clerk_user_id IN
     req' = IF ~users[u].present
            THEN finish(r, NotProMsg)
            ELSE finish(r, IF users[u].is_pro THEN IsProMsg ELSE NotProMsg)
  /\ UNCHANGED <<payments, users, now, approveOk>>
  /\ UNCHANGED nonFlatVars

\* -------------------------------------------------- store failure, time
\* The awaited statement of request r rejects; the handler's catch block
\* answers 500 and nothing that was already written is undone.
failureMessage(op) ==
  IF op = "submit" THEN SubmitFailed
  ELSE IF op = "approve" THEN ApproveFailed
  ELSE IF op = "reject" THEN RejectFailed
  ELSE ProStatusFailed

StatementFails(r) ==
  /\ req[r].pc \notin {"idle", "done"}
  /\ req' = finish(r, failureMessage(req[r].op))
  /\ UNCHANGED <<payments, users, now, approveOk>>
  /\ UNCHANGED nonFlatVars

\* The response has been delivered; the slot is free for the next request.
Respond(r) ==
  /\ req[r].pc = "done"
  /\ req' = [req EXCEPT ![r] = Idle]
  /\ UNCHANGED <<payments, users, now, approveOk>>
  /\ UNCHANGED nonFlatVars

Next ==
  \/ \E r \in Req, u \in Users, a \in Amounts, t \in TxIds \cup {""} : StartSubmit(r, u, a, t)
  \/ \E r \in Req : SubmitSelectUser(r)
  \/ \E r \in Req : SubmitSelectPending(r)
  \/ \E r \in Req : SubmitSelectTransaction(r)
  \/ \E r \in Req : SubmitInsert(r)
  \/ \E r \in Req, p \in PaymentIds, a \in Admins : StartApprove(r, p, a)
  \/ \E r \in Req : ApproveSelect(r)
  \/ \E r \in Req : ApproveUpdate(r)
  \/ \E r \in Req : ApproveUpsert(r)
  \/ \E r \in Req, p \in PaymentIds, a \in Admins, x \in Reasons : StartReject(r, p, a, x)
  \/ \E r \in Req : RejectSelect(r)
  \/ \E r \in Req : RejectUpdate(r)
  \/ \E r \in Req, u \in Users : StartProStatus(r, u)
  \/ \E r \in Req : ProStatusSelect(r)
  \/ \E r \in Req : StatementFails(r)
  \/ \E r \in Req : Respond(r)

Spec == Init /\ [][Next]_vars

\* Requests handled one at a time: a request arrives only when no handler is
\* running and no response but the latest is still to be delivered.  This is
\* the setting of the claims about a single call made after earlier calls
\* have returned.
Quiescent ==
  /\ \A r \in Req : req[r].pc \in {"idle", "done"}
  /\ \A r, q \in Req : (req[r].pc = "done" /\ req[q].pc = "done") => r = q

NextSeq ==
  \/ Quiescent /\ \E r \in Req, u \in Users, a \in Amounts, t \in TxIds \cup {""} :
                    StartSubmit(r, u, a, t)
  \/ \E r \in Req : SubmitSelectUser(r)
  \/ \E r \in Req : SubmitSelectPending(r)
  \/ \E r \in Req : SubmitSelectTransaction(r)
  \/ \E r \in Req : SubmitInsert(r)
  \/ Quiescent /\ \E r \in Req, p \in PaymentIds, a \in Admins : StartApprove(r, p, a)
  \/ \E r \in Req : ApproveSelect(r)
  \/ \E r \in Req : ApproveUpdate(r)
  \/ \E r \in Req : ApproveUpsert(r)
  \/ Quiescent /\ \E r \in Req, p \in PaymentIds, a \in Admins, x \in SeqReasons :
                    StartReject(r, p, a, x)
  \/ \E r \in Req : RejectSelect(r)
  \/ \E r \in Req : RejectUpdate(r)
  \/ Quiescent /\ \E r \in Req, u \in Users : StartProStatus(r, u)
  \/ \E r \in Req : ProStatusSelect(r)
  \/ \E r \in Req : StatementFails(r)
  \/ \E r \in Req : Respond(r)

SpecSeq == Init /\ [][NextSeq]_vars

TypeOK ==
  /\ Len(payments) <= MaxPayments
  /\ now \in 1..MaxTime
  /\ approveOk \subseteq Users

\* ===================================================================
\* The plan-based subscription model: routes/subscriptionRoute.js
\* ===================================================================
\* ---------------------------------------------------------------- bounds
MaxDay == 8
TrialDays == 7

\* ---------------------------------------------------------------- inputs
PlanUsers == {"u1"}
MaxSubscriptions == 2
PlanIds == {0, 1, 2, 3}
PlanAmounts == {"", "150.00", "200", "200.00"}
PaymentMethods == {"", "telebirr"}
TransactionCodes == {"", "TX1"}

\* subscription_plans: the default 'Premium Plan' of initDB and a plan that
\* an admin created with is_active = false.
subscription_plans ==
  [id \in {1, 2} |->
     IF id = 1 THEN [price |-> "200.00", is_active |-> TRUE]
               ELSE [price |-> "150.00", is_active |-> FALSE]]

\* parseFloat of a request amount or a DECIMAL(10,2) column, in cents.
parseFloat(str) ==
  CASE str = "150.00" -> 15000
    [] str = "200" -> 20000
    [] str = "200.00" -> 20000
    [] OTHER -> -1

\* ------------------------------------------------------- response bodies
TrialStarted == "7-day free trial started!"
TrialUsed == "Trial already used"
StartTrialFailed == "Failed to start trial: connection"
StartTrialDuplicate == "Failed to start trial: duplicate key value violates unique constraint"
TrialSkipped == "Trial skipped successfully"
SkipTrialFailed == "Failed to skip trial: connection"
SkipTrialDuplicate == "Failed to skip trial: duplicate key value violates unique constraint"
PlanMissingFields == "Missing required fields: plan_id, amount, payment_method, transaction_code"
PlanNotFound == "Subscription plan not found"
AmountMismatch == "Amount must be exactly 200 for this plan"
PlanSubmitted == "Payment submitted successfully. Waiting for admin approval."
PlanSubmitFailed == "Failed to submit payment: connection"

\* ------------------------------------------------------------- queries
\* SELECT * FROM user_trials WHERE user_id = $1 LIMIT 1
existingTrial(user_id) ==
  {i \in DOMAIN user_trials : user_trials[i].user_id = user_id}

\* A user_trials table without the UNIQUE constraint.
trialConflict_unconstrained(user_id) ==
  FALSE

\* user_id TEXT NOT NULL UNIQUE: an INSERT of a second row for the user
\* is refused with a duplicate-key error.
trialConflict(user_id) ==
  \E i \in DOMAIN user_trials : user_trials[i].user_id = user_id

\* A trial that lasts one day.
trialEndOf_oneDay(trialStart) ==
  trialStart + 1

\* trialEnd.setDate(trialEnd.getDate() + 7)
trialEndOf(trialStart) ==
  trialStart + TrialDays

\* is_active = true AND trial_end_date > CURRENT_TIMESTAMP
trialActive(user_id) ==
  \E i \in DOMAIN user_trials :
    /\ user_trials[i].user_id = user_id
    /\ user_trials[i].is_active
    /\ user_trials[i].trial_end_date > clock

\* !plan_id || !amount || !payment_method || !transaction_code
missingPlanFields(plan_id, amount, payment_method, transaction_code) ==
  plan_id = 0 \/ amount = "" \/ payment_method = "" \/ transaction_code = ""

\* SELECT * FROM subscription_plans WHERE id = $1 AND is_active = true
activePlan(plan_id) ==
  {id \in DOMAIN subscription_plans : id = plan_id /\ subscription_plans[id].is_active}

\* An amount test that accepts any amount up to the price.
amountMatches_atMost(amount, price) ==
  parseFloat(amount) <= parseFloat(price)

\* submittedAmount !== planPrice, negated
amountMatches(amount, price) ==
  parseFloat(amount) = parseFloat(price)

COALESCE(a, b) == IF a # NULL THEN a ELSE b

InFlightPlanSubmits ==
  Cardinality({r \in Req : preq[r].op = "submit-payment" /\ preq[r].pc # "done"})

\* res.json(...): the handler ends; its locals are dead, the response and
\* the request as it was sent (caller, plan, amount) remain until delivered.
pfinish(r, msg) ==
  [preq EXCEPT ![r] = [PIdle EXCEPT !.op = preq[r].op, !.pc = "done", !.resp = msg,
                                    !.user_id = preq[r].user_id,
                                    !.plan_id = preq[r].plan_id,
                                    !.amount = preq[r].amount]]

PFreeSlot(r) ==
  /\ preq[r].pc = "idle"
  /\ \A q \in Req : q < r => preq[q].pc # "idle"

\* ---------------------------------------------------- POST /start-trial
StartTrial(r, u) ==
  /\ PFreeSlot(r)
  /\ preq' = [preq EXCEPT ![r] = [PIdle EXCEPT !.op = "start-trial", !.pc = "t_select",
                                               !.user_id = u]]
  /\ UNCHANGED <<user_trials, payment_submissions, clock>>
  /\ UNCHANGED nonPlanVars

StartTrialSelect(r) ==
  /\ preq[r].pc = "t_select"
  /\ preq' = IF existingTrial(preq[r].user_id) # {}
             THEN pfinish(r, TrialUsed)
             ELSE [preq EXCEPT ![r].pc = "t_insert",
                               ![r].trialStart = clock,
                               ![r].trialEnd = trialEndOf(clock)]
  /\ UNCHANGED <<user_trials, payment_submissions, clock>>
  /\ UNCHANGED nonPlanVars

\* INSERT INTO user_trials (...) VALUES (user_id, trialStart, trialEnd, true)
StartTrialInsert(r) ==
  /\ preq[r].pc = "t_insert"
  /\ IF trialConflict(preq[r].user_id)
     THEN /\ preq' = pfinish(r, StartTrialDuplicate)
          /\ UNCHANGED user_trials
     ELSE /\ user_trials' = Append(user_trials,
                              [user_id |-> preq[r].user_id,
                               trial_start_date |-> preq[r].trialStart,
                               trial_end_date |-> preq[r].trialEnd,
                               is_active |-> TRUE])
          /\ preq' = pfinish(r, TrialStarted)
  /\ UNCHANGED <<payment_submissions, clock>>
  /\ UNCHANGED nonPlanVars

\* ----------------------------------------------------- POST /skip-trial
SkipTrial(r, u) ==
  /\ PFreeSlot(r)
  /\ preq' = [preq EXCEPT ![r] = [PIdle EXCEPT !.op = "skip-trial", !.pc = "k_select",
                                               !.user_id = u]]
  /\ UNCHANGED <<user_trials, payment_submissions, clock>>
  /\ UNCHANGED nonPlanVars

SkipTrialSelect(r) ==
  /\ preq[r].pc = "k_select"
  /\ preq' = [preq EXCEPT ![r].pc = IF existingTrial(preq[r].user_id) # {}
                                    THEN "k_update" ELSE "k_insert",
                          ![r].trialStart = clock,
                          ![r].trialEnd = clock]
  /\ UNCHANGED <<user_trials, payment_submissions, clock>>
  /\ UNCHANGED nonPlanVars

\* UPDATE user_trials SET is_active = false, trial_start_date, trial_end_date
\* WHERE user_id = $1
skipRow(row, trialStart, trialEnd) ==
  [row EXCEPT !.is_active = FALSE, !.trial_start_date = trialStart,
              !.trial_end_date = trialEnd]

SkipTrialUpdate(r) ==
  /\ preq[r].pc = "k_update"
  /\ user_trials' = [i \in DOMAIN user_trials |->
                       IF user_trials[i].user_id = preq[r].user_id
                       THEN skipRow(user_trials[i], preq[r].trialStart, preq[r].trialEnd)
                       ELSE user_trials[i]]
  /\ preq' = pfinish(r, TrialSkipped)
  /\ UNCHANGED <<payment_submissions, clock>>
  /\ UNCHANGED nonPlanVars

\* INSERT INTO user_trials (...) VALUES (user_id, trialStart, trialEnd, false)
SkipTrialInsert(r) ==
  /\ preq[r].pc = "k_insert"
  /\ IF trialConflict(preq[r].user_id)
     THEN /\ preq' = pfinish(r, SkipTrialDuplicate)
          /\ UNCHANGED user_trials
     ELSE /\ user_trials' = Append(user_trials,
                              [user_id |-> preq[r].user_id,
                               trial_start_date |-> preq[r].trialStart,
                               trial_end_date |-> preq[r].trialEnd,
                               is_active |-> FALSE])
          /\ preq' = pfinish(r, TrialSkipped)
  /\ UNCHANGED <<payment_submissions, clock>>
  /\ UNCHANGED nonPlanVars

\* ------------------------------------ POST /submit-payment (plan-based)
SubmitPayment(r, u, plan_id, amount, payment_method, transaction_code) ==
  /\ PFreeSlot(r)
  /\ Len(payment_submissions) + InFlightPlanSubmits < MaxPayments
  /\ LET q == [PIdle EXCEPT !.op = "submit-payment", !.user_id = u,
                            !.plan_id = plan_id, !.amount = amount]
     IN preq' = [preq EXCEPT ![r] =
                   IF missingPlanFields(plan_id, amount, payment_method, transaction_code)
                   THEN [PIdle EXCEPT !.op = "submit-payment", !.pc = "done",
                                      !.resp = PlanMissingFields, !.user_id = u]
                   ELSE [q EXCEPT !.pc = "p_plan",
                                  !.transaction_code = transaction_code]]
  /\ UNCHANGED <<user_trials, payment_submissions, clock>>
  /\ UNCHANGED nonPlanVars

SubmitPaymentSelectPlan(r) ==
  /\ preq[r].pc = "p_plan"
  /\ LET plan == activePlan(preq[r].plan_id) IN
     preq' = IF plan = {}
             THEN pfinish(r, PlanNotFound)
             ELSE IF ~amountMatches(preq[r].amount,
                                    subscription_plans[preq[r].plan_id].price)
             THEN pfinish(r, AmountMismatch)
             ELSE [preq EXCEPT ![r].pc = "p_insert"]
  /\ UNCHANGED <<user_trials, payment_submissions, clock>>
  /\ UNCHANGED nonPlanVars

\* INSERT INTO payment_submissions (...) VALUES (..., 'pending') RETURNING *
newSubmission(user_id, plan_id, amount, transaction_code) ==
  [user_id |-> user_id, plan_id |-> plan_id, amount |-> parseFloat(amount),
   transaction_code |-> transaction_code, status |-> "pending",
   verified_by |-> "", rejection_reason |-> ""]

SubmitPaymentInsert(r) ==
  /\ preq[r].pc = "p_insert"
  /\ payment_submissions' =
       Append(payment_submissions,
              newSubmission(preq[r].user_id, preq[r].plan_id, preq[r].amount,
                            preq[r].transaction_code))
  /\ preq' = [preq EXCEPT ![r].pc = "p_trial",
                          ![r].trialStart = clock,
                          ![r].trialEnd = clock]
  /\ UNCHANGED <<user_trials, clock>>
  /\ UNCHANGED nonPlanVars

\* An upsert whose conflict branch leaves is_active as it was.
consumeRow_keepActive(row, trialStart, trialEnd) ==
  [row EXCEPT !.trial_start_date = COALESCE(row.trial_start_date, trialStart),
              !.trial_end_date = COALESCE(row.trial_end_date, trialEnd)]

\* ON CONFLICT (user_id) DO UPDATE SET is_active = false,
\*   trial_start_date = COALESCE(user_trials.trial_start_date, $2),
\*   trial_end_date = COALESCE(user_trials.trial_end_date, $3)
consumeRow(row, trialStart, trialEnd) ==
  [row EXCEPT !.is_active = FALSE,
              !.trial_start_date = COALESCE(row.trial_start_date, trialStart),
              !.trial_end_date = COALESCE(row.trial_end_date, trialEnd)]

\* INSERT INTO user_trials (...) VALUES (user_id, trialStart, trialEnd, false)
\* ON CONFLICT (user_id) DO UPDATE ...
SubmitPaymentConsumeTrial(r) ==
  /\ preq[r].pc = "p_trial"
  /\ user_trials' =
       IF trialConflict(preq[r].user_id)
       THEN [i \in DOMAIN user_trials |->
               IF user_trials[i].user_id = preq[r].user_id
               THEN consumeRow(user_trials[i], preq[r].trialStart, preq[r].trialEnd)
               ELSE user_trials[i]]
       ELSE Append(user_trials,
                   [user_id |-> preq[r].user_id,
                    trial_start_date |-> preq[r].trialStart,
                    trial_end_date |-> preq[r].trialEnd,
                    is_active |-> FALSE])
  /\ preq' = pfinish(r, PlanSubmitted)
  /\ UNCHANGED <<payment_submissions, clock>>
  /\ UNCHANGED nonPlanVars

\* -------------------------------------------------- store failure, time
planFailureMessage(op) ==
  IF op = "start-trial" THEN StartTrialFailed
  ELSE IF op = "skip-trial" THEN SkipTrialFailed
  ELSE PlanSubmitFailed

\* The awaited statement of request r rejects; the catch block answers 500.
PlanStatementFails(r) ==
  /\ preq[r].pc \notin {"idle", "done"}
  /\ preq' = pfinish(r, planFailureMessage(preq[r].op))
  /\ UNCHANGED <<user_trials, payment_submissions, clock>>
  /\ UNCHANGED nonPlanVars

PlanRespond(r) ==
  /\ preq[r].pc = "done"
  /\ preq' = [preq EXCEPT ![r] = PIdle]
  /\ UNCHANGED <<user_trials, payment_submissions, clock>>
  /\ UNCHANGED nonPlanVars

\* A day passes.
Tick ==
  /\ clock < MaxDay
  /\ clock' = clock + 1
  /\ UNCHANGED <<user_trials, payment_submissions, preq>>
  /\ UNCHANGED nonPlanVars

NextPlan ==
  \/ \E r \in Req, u \in PlanUsers : StartTrial(r, u)
  \/ \E r \in Req : StartTrialSelect(r)
  \/ \E r \in Req : StartTrialInsert(r)
  \/ \E r \in Req, u \in PlanUsers : SkipTrial(r, u)
  \/ \E r \in Req : SkipTrialSelect(r)
  \/ \E r \in Req : SkipTrialUpdate(r)
  \/ \E r \in Req : SkipTrialInsert(r)
  \/ \E r \in Req, u \in PlanUsers, p \in PlanIds, a \in PlanAmounts,
        m \in PaymentMethods, t \in TransactionCodes : SubmitPayment(r, u, p, a, m, t)
  \/ \E r \in Req : SubmitPaymentSelectPlan(r)
  \/ \E r \in Req : SubmitPaymentInsert(r)
  \/ \E r \in Req : SubmitPaymentConsumeTrial(r)
  \/ \E r \in Req : PlanStatementFails(r)
  \/ \E r \in Req : PlanRespond(r)
  \/ Tick

SpecPlan == Init /\ [][NextPlan]_vars

PlanQuiescent ==
  /\ \A r \in Req : preq[r].pc \in {"idle", "done"}
  /\ \A r, q \in Req : (preq[r].pc = "done" /\ preq[q].pc = "done") => r = q

NextPlanSeq ==
  \/ PlanQuiescent /\ \E r \in Req, u \in PlanUsers : StartTrial(r, u)
  \/ \E r \in Req : StartTrialSelect(r)
  \/ \E r \in Req : StartTrialInsert(r)
  \/ PlanQuiescent /\ \E r \in Req, u \in PlanUsers : SkipTrial(r, u)
  \/ \E r \in Req : SkipTrialSelect(r)
  \/ \E r \in Req : SkipTrialUpdate(r)
  \/ \E r \in Req : SkipTrialInsert(r)
  \/ PlanQuiescent /\ \E r \in Req, u \in PlanUsers, p \in PlanIds, a \in PlanAmounts,
                         m \in PaymentMethods, t \in TransactionCodes :
                       SubmitPayment(r, u, p, a, m, t)
  \/ \E r \in Req : SubmitPaymentSelectPlan(r)
  \/ \E r \in Req : SubmitPaymentInsert(r)
  \/ \E r \in Req : SubmitPaymentConsumeTrial(r)
  \/ \E r \in Req : PlanStatementFails(r)
  \/ \E r \in Req : PlanRespond(r)
  \/ Tick

SpecPlanSeq == Init /\ [][NextPlanSeq]_vars

PlanTypeOK ==
  /\ Len(payment_submissions) <= MaxPayments
  /\ clock \in 1..MaxDay
  /\ \A i \in DOMAIN user_trials : user_trials[i].user_id \in PlanUsers

\* ===================================================================
\* routes/adminSubscriptionRoute.js and the admin router of
\* routes/paymentFlow.js: the admin operations on payment_submissions and
\* user_subscriptions
\* ===================================================================
\* process.env.ADMIN_TOKEN, and the admin-token headers that callers send:
\* none, or the token.
ADMIN_TOKEN == "admin-secret"
AdminTokens == {"", ADMIN_TOKEN}

\* plan[0]?.duration_days || 30; the default plan lasts 30 days as well.
DefaultDurationDays == 30

duration_days(plan_id) == DefaultDurationDays

AdminRequired == "Admin access required"
PendingNotFound == "Pending payment not found"
PaymentApproved == "Payment approved and subscription activated successfully"
ApprovePaymentFailed == "Failed to approve payment: connection"
RejectionReasonRequired == "Rejection reason is required"
PaymentRejected == "Payment rejected successfully"
RejectPaymentFailed == "Failed to reject payment: connection"
SubscriptionCancelled == "Subscription cancelled successfully"
ActiveSubscriptionNotFound == "Active subscription not found"
CancelSubscriptionFailed == "Failed to cancel subscription"
PaymentNotFound == "Payment not found"
AlreadyProcessed == "Payment already processed"
PaymentVerified == "Payment verified and subscription activated"
VerifyPaymentFailed == "Failed to verify payment"
PfRejectFailed == "Failed to reject payment"

\* requireAdmin of adminSubscriptionRoute.js:
\* !adminToken || adminToken !== process.env.ADMIN_TOKEN refuses the caller.
requireAdmin(adminToken) ==
  ~(adminToken = "" \/ adminToken # ADMIN_TOKEN)

\* requireAdmin of paymentFlow.js: const isAdmin = true.
requireAdminPaymentFlow(adminToken) ==
  LET isAdmin == TRUE IN isAdmin

\* res.json(...): the handler ends; the response and the request as it was
\* sent (operation, addressed payment or user, the caller's token) remain
\* until delivered.
afinish(r, msg) ==
  [areq EXCEPT ![r] = [AIdle EXCEPT !.op = areq[r].op, !.pc = "done", !.resp = msg,
                                    !.paymentId = areq[r].paymentId,
                                    !.userId = areq[r].userId,
                                    !.admin_token = areq[r].admin_token]]

AFreeSlot(r) ==
  /\ areq[r].pc = "idle"
  /\ \A q \in Req : q < r => areq[q].pc # "idle"

\* A request enters a router: the admin check answers it or lets it through
\* to the first statement of its handler.
enter(op, pc, paymentId, userId, reason, adminToken, allowed) ==
  IF allowed
  THEN [AIdle EXCEPT !.op = op, !.pc = pc, !.paymentId = paymentId, !.userId = userId,
                     !.rejection_reason = reason, !.admin_token = adminToken]
  ELSE [AIdle EXCEPT !.op = op, !.pc = "done", !.paymentId = paymentId,
                     !.userId = userId, !.admin_token = adminToken,
                     !.resp = AdminRequired]

\* ----------------------------------------- POST /approve-payment/:paymentId
ApprovePayment(r, paymentId, adminToken) ==
  /\ AFreeSlot(r)
  /\ areq' = [areq EXCEPT ![r] = enter("approve-payment", "ap_select", paymentId, "", "",
                                       adminToken, requireAdmin(adminToken))]
  /\ UNCHANGED <<user_subscriptions, flatVars, planVars, call, readVars>>

\* SELECT * FROM payment_submissions WHERE id = $1 AND status = 'pending'
ApprovePaymentSelect(r) ==
  /\ areq[r].pc = "ap_select"
  /\ LET id == areq[r].paymentId IN
     IF id \in DOMAIN payment_submissions /\ payment_submissions[id].status = "pending"
     THEN areq' = [areq EXCEPT ![r].pc = "ap_plan",
                               ![r].user_id = payment_submissions[id].user_id,
                               ![r].plan_id = payment_submissions[id].plan_id]
     ELSE areq' = afinish(r, PendingNotFound)
  /\ UNCHANGED <<user_subscriptions, flatVars, planVars, call, readVars>>

\* SELECT duration_days FROM subscription_plans; endDate = now + durationDays
ApprovePaymentSelectPlan(r) ==
  /\ areq[r].pc = "ap_plan"
  /\ areq' = [areq EXCEPT ![r].pc = "ap_update",
                          ![r].durationDays = duration_days(areq[r].plan_id),
                          ![r].endDate = clock + duration_days(areq[r].plan_id)]
  /\ UNCHANGED <<user_subscriptions, flatVars, planVars, call, readVars>>

\* UPDATE payment_submissions SET status = 'approved', verified_by = 'admin'
approveSubmission(row) ==
  [row EXCEPT !.status = "approved", !.verified_by = "admin"]

ApprovePaymentUpdate(r) ==
  /\ areq[r].pc = "ap_update"
  /\ payment_submissions' =
       [payment_submissions EXCEPT ![areq[r].paymentId] = approveSubmission(@)]
  /\ areq' = [areq EXCEPT ![r].pc = "ap_deactivate"]
  /\ UNCHANGED <<user_subscriptions, flatVars, user_trials, preq, clock, call, readVars>>

\* UPDATE user_subscriptions SET status = 'inactive'
\* WHERE user_id = $1 AND status = 'active'
deactivate(subs, user_id) ==
  [i \in DOMAIN subs |->
     IF subs[i].user_id = user_id /\ subs[i].status = "active"
     THEN [subs[i] EXCEPT !.status = "inactive"]
     ELSE subs[i]]

ApprovePaymentDeactivate(r) ==
  /\ areq[r].pc = "ap_deactivate"
  /\ user_subscriptions' = deactivate(user_subscriptions, areq[r].user_id)
  /\ areq' = [areq EXCEPT ![r].pc = "ap_insert"]
  /\ UNCHANGED <<flatVars, planVars, call, readVars>>

\* INSERT INTO user_subscriptions (user_id, plan_id, status, end_date, ...)
newSubscription(user_id, plan_id, end_date) ==
  [user_id |-> user_id, plan_id |-> plan_id, status |-> "active",
   end_date |-> end_date]

ApprovePaymentInsert(r) ==
  /\ areq[r].pc = "ap_insert"
  /\ Len(user_subscriptions) < MaxSubscriptions
  /\ user_subscriptions' =
       Append(user_subscriptions,
              newSubscription(areq[r].user_id, areq[r].plan_id, areq[r].endDate))
  /\ areq' = afinish(r, PaymentApproved)
  /\ UNCHANGED <<flatVars, planVars, call, readVars>>

\* ------------------------------------------ POST /reject-payment/:paymentId
RejectPayment(r, paymentId, rejection_reason, adminToken) ==
  /\ AFreeSlot(r)
  /\ LET q == enter("reject-payment", "rp_update", paymentId, "", rejection_reason,
                    adminToken, requireAdmin(adminToken)) IN
     areq' = [areq EXCEPT ![r] =
                IF q.pc # "done" /\ rejection_reason = ""
                THEN [q EXCEPT !.pc = "done", !.resp = RejectionReasonRequired]
                ELSE q]
  /\ UNCHANGED <<user_subscriptions, flatVars, planVars, call, readVars>>

\* UPDATE payment_submissions SET status = 'rejected', rejection_reason, ...
rejectSubmission(row, rejection_reason) ==
  [row EXCEPT !.status = "rejected", !.rejection_reason = rejection_reason]

\* ... WHERE id = $1 AND status = 'pending' RETURNING *
RejectPaymentUpdate(r) ==
  /\ areq[r].pc = "rp_update"
  /\ LET id == areq[r].paymentId IN
     IF id \in DOMAIN payment_submissions /\ payment_submissions[id].status = "pending"
     THEN /\ payment_submissions' =
               [payment_submissions EXCEPT ![id] =
                  rejectSubmission(@, areq[r].rejection_reason)]
          /\ areq' = afinish(r, PaymentRejected)
     ELSE /\ areq' = afinish(r, PendingNotFound)
          /\ UNCHANGED payment_submissions
  /\ UNCHANGED <<user_subscriptions, flatVars, user_trials, preq, clock, call, readVars>>

\* ------------------------------------------ POST /cancel-subscription/:userId
CancelSubscription(r, userId, adminToken) ==
  /\ AFreeSlot(r)
  /\ areq' = [areq EXCEPT ![r] = enter("cancel-subscription", "cs_update", 0, userId, "",
                                       adminToken, requireAdmin(adminToken))]
  /\ UNCHANGED <<user_subscriptions, flatVars, planVars, call, readVars>>

\* UPDATE user_subscriptions SET status = 'cancelled', end_date = CURRENT_TIMESTAMP
\* WHERE user_id = $1 AND status = 'active' RETURNING *
cancel(subs, user_id) ==
  [i \in DOMAIN subs |->
     IF subs[i].user_id = user_id /\ subs[i].status = "active"
     THEN [subs[i] EXCEPT !.status = "cancelled", !.end_date = clock]
     ELSE subs[i]]

CancelSubscriptionUpdate(r) ==
  /\ areq[r].pc = "cs_update"
  /\ user_subscriptions' = cancel(user_subscriptions, areq[r].userId)
  /\ areq' = IF user_subscriptions' = user_subscriptions
             THEN afinish(r, ActiveSubscriptionNotFound)
             ELSE afinish(r, SubscriptionCancelled)
  /\ UNCHANGED <<flatVars, planVars, call, readVars>>

\* ------------------------------- paymentFlow.js: POST /payments/:id/verify
VerifyPayment(r, paymentId, adminToken) ==
  /\ AFreeSlot(r)
  /\ areq' = [areq EXCEPT ![r] = enter("verify", "vp_select", paymentId, "", "",
                                       adminToken, requireAdminPaymentFlow(adminToken))]
  /\ UNCHANGED <<user_subscriptions, flatVars, planVars, call, readVars>>

\* SELECT * FROM payment_submissions WHERE id = $1; pay.status !== "pending"
VerifyPaymentSelect(r) ==
  /\ areq[r].pc = "vp_select"
  /\ LET id == areq[r].paymentId IN
     IF id \notin DOMAIN payment_submissions
     THEN areq' = afinish(r, PaymentNotFound)
     ELSE IF payment_submissions[id].status # "pending"
     THEN areq' = afinish(r, AlreadyProcessed)
     ELSE areq' = [areq EXCEPT ![r].pc = "vp_update",
                               ![r].user_id = payment_submissions[id].user_id,
                               ![r].plan_id = payment_submissions[id].plan_id]
  /\ UNCHANGED <<user_subscriptions, flatVars, planVars, call, readVars>>

\* UPDATE payment_submissions SET status = 'verified', verified_by = adminId
verifySubmission(row) ==
  [row EXCEPT !.status = "verified", !.verified_by = "system_admin"]

VerifyPaymentUpdate(r) ==
  /\ areq[r].pc = "vp_update"
  /\ payment_submissions' =
       [payment_submissions EXCEPT ![areq[r].paymentId] = verifySubmission(@)]
  /\ areq' = [areq EXCEPT ![r].pc = "vp_plan"]
  /\ UNCHANGED <<user_subscriptions, flatVars, user_trials, preq, clock, call, readVars>>

\* SELECT * FROM subscription_plans WHERE id = pay.plan_id; without a plan
\* the handler answers at once, with one it computes endDate.
VerifyPaymentSelectPlan(r) ==
  /\ areq[r].pc = "vp_plan"
  /\ areq' = IF areq[r].plan_id \in DOMAIN subscription_plans
             THEN [areq EXCEPT ![r].pc = "vp_sub",
                               ![r].durationDays = duration_days(areq[r].plan_id),
                               ![r].endDate = clock + duration_days(areq[r].plan_id)]
             ELSE afinish(r, PaymentVerified)
  /\ UNCHANGED <<user_subscriptions, flatVars, planVars, call, readVars>>

\* SELECT * FROM user_subscriptions WHERE user_id = $1
\* ORDER BY created_at DESC LIMIT 1: the id of the latest row, NULL if none.
existingSub(user_id) ==
  LET ids == {i \in DOMAIN user_subscriptions : user_subscriptions[i].user_id = user_id}
  IN IF ids = {} THEN NULL ELSE CHOOSE i \in ids : \A j \in ids : j <= i

VerifyPaymentSelectSub(r) ==
  /\ areq[r].pc = "vp_sub"
  /\ areq' = [areq EXCEPT ![r].pc = "vp_write", ![r].sub = existingSub(areq[r].user_id)]
  /\ UNCHANGED <<user_subscriptions, flatVars, planVars, call, readVars>>

\* UPDATE user_subscriptions SET end_date, status = 'active' WHERE id = $1
extendSubscription(row, end_date) ==
  [row EXCEPT !.end_date = end_date, !.status = "active"]

\* The UPDATE of the subscription found, or the INSERT of a new one.
VerifyPaymentWrite(r) ==
  /\ areq[r].pc = "vp_write"
  /\ IF areq[r].sub # NULL
     THEN user_subscriptions' =
            [user_subscriptions EXCEPT ![areq[r].sub] =
               extendSubscription(@, areq[r].endDate)]
     ELSE /\ Len(user_subscriptions) < MaxSubscriptions
          /\ user_subscriptions' =
               Append(user_subscriptions,
                      newSubscription(areq[r].user_id, areq[r].plan_id, areq[r].endDate))
  /\ areq' = afinish(r, PaymentVerified)
  /\ UNCHANGED <<flatVars, planVars, call, readVars>>

\* ------------------------------- paymentFlow.js: POST /payments/:id/reject
RejectPaymentFlow(r, paymentId, reason, adminToken) ==
  /\ AFreeSlot(r)
  /\ LET q == enter("pf-reject", "pr_update", paymentId, "", reason,
                    adminToken, requireAdminPaymentFlow(adminToken)) IN
     areq' = [areq EXCEPT ![r] =
                IF q.pc # "done" /\ reason = ""
                THEN [q EXCEPT !.pc = "done", !.resp = RejectionReasonRequired]
                ELSE q]
  /\ UNCHANGED <<user_subscriptions, flatVars, planVars, call, readVars>>

\* UPDATE payment_submissions SET status = 'rejected', rejection_reason
\* WHERE id = $1: whatever the status of the row, and no row is no error.
RejectPaymentFlowUpdate(r) ==
  /\ areq[r].pc = "pr_update"
  /\ LET id == areq[r].paymentId IN
     payment_submissions' =
       IF id \in DOMAIN payment_submissions
       THEN [payment_submissions EXCEPT ![id] =
               rejectSubmission(@, areq[r].rejection_reason)]
       ELSE payment_submissions
  /\ areq' = afinish(r, PaymentRejected)
  /\ UNCHANGED <<user_subscriptions, flatVars, user_trials, preq, clock, call, readVars>>

\* -------------------------------------------------------- store failure
adminFailureMessage(op) ==
  IF op = "approve-payment" THEN ApprovePaymentFailed
  ELSE IF op = "reject-payment" THEN RejectPaymentFailed
  ELSE IF op = "cancel-subscription" THEN CancelSubscriptionFailed
  ELSE IF op = "verify" THEN VerifyPaymentFailed
  ELSE PfRejectFailed

\* The awaited statement of request r rejects; the catch block answers 500
\* and what the handler has written stays written.
AdminStatementFails(r) ==
  /\ areq[r].pc \notin {"idle", "done"}
  /\ areq' = afinish(r, adminFailureMessage(areq[r].op))
  /\ UNCHANGED <<user_subscriptions, flatVars, planVars, call, readVars>>

AdminRespond(r) ==
  /\ areq[r].pc = "done"
  /\ areq' = [areq EXCEPT ![r] = AIdle]
  /\ UNCHANGED <<user_subscriptions, flatVars, planVars, call, readVars>>

\* The handlers of adminSubscriptionRoute.js running concurrently, on
\* payments that users submit one at a time for the active plan.
NextAdmin ==
  \/ PlanQuiescent /\ \E r \in Req, u \in PlanUsers :
                        SubmitPayment(r, u, 1, "200.00", "telebirr", "TX1")
  \/ \E r \in Req : SubmitPaymentSelectPlan(r)
  \/ \E r \in Req : SubmitPaymentInsert(r)
  \/ \E r \in Req : SubmitPaymentConsumeTrial(r)
  \/ \E r \in Req : PlanRespond(r)
  \/ \E r \in Req, p \in PaymentIds, t \in AdminTokens : ApprovePayment(r, p, t)
  \/ \E r \in Req : ApprovePaymentSelect(r)
  \/ \E r \in Req : ApprovePaymentSelectPlan(r)
  \/ \E r \in Req : ApprovePaymentUpdate(r)
  \/ \E r \in Req : ApprovePaymentDeactivate(r)
  \/ \E r \in Req : ApprovePaymentInsert(r)
  \/ \E r \in Req, p \in PaymentIds, x \in Reasons, t \in AdminTokens :
       RejectPayment(r, p, x, t)
  \/ \E r \in Req : RejectPaymentUpdate(r)
  \/ \E r \in Req, u \in PlanUsers, t \in AdminTokens : CancelSubscription(r, u, t)
  \/ \E r \in Req : CancelSubscriptionUpdate(r)
  \/ \E r \in Req : AdminStatementFails(r)
  \/ \E r \in Req : AdminRespond(r)

SpecAdmin == Init /\ [][NextAdmin]_vars

AdminQuiescent ==
  /\ \A r \in Req : areq[r].pc \in {"idle", "done"}
  /\ \A r, q \in Req : (areq[r].pc = "done" /\ areq[q].pc = "done") => r = q

\* The admin router of paymentFlow.js, and approve-payment beside it, with
\* requests handled one at a time.
NextPaymentFlow ==
  \/ PlanQuiescent /\ \E r \in Req, u \in PlanUsers :
                        SubmitPayment(r, u, 1, "200.00", "telebirr", "TX1")
  \/ \E r \in Req : SubmitPaymentSelectPlan(r)
  \/ \E r \in Req : SubmitPaymentInsert(r)
  \/ \E r \in Req : SubmitPaymentConsumeTrial(r)
  \/ \E r \in Req : PlanRespond(r)
  \/ AdminQuiescent /\ \E r \in Req, p \in PaymentIds, t \in AdminTokens :
                         ApprovePayment(r, p, t)
  \/ \E r \in Req : ApprovePaymentSelect(r)
  \/ \E r \in Req : ApprovePaymentSelectPlan(r)
  \/ \E r \in Req : ApprovePaymentUpdate(r)
  \/ \E r \in Req : ApprovePaymentDeactivate(r)
  \/ \E r \in Req : ApprovePaymentInsert(r)
  \/ AdminQuiescent /\ \E r \in Req, p \in PaymentIds, t \in AdminTokens :
                         VerifyPayment(r, p, t)
  \/ \E r \in Req : VerifyPaymentSelect(r)
  \/ \E r \in Req : VerifyPaymentUpdate(r)
  \/ \E r \in Req : VerifyPaymentSelectPlan(r)
  \/ \E r \in Req : VerifyPaymentSelectSub(r)
  \/ \E r \in Req : VerifyPaymentWrite(r)
  \/ AdminQuiescent /\ \E r \in Req, p \in PaymentIds, x \in Reasons, t \in AdminTokens :
                         RejectPaymentFlow(r, p, x, t)
  \/ \E r \in Req : RejectPaymentFlowUpdate(r)
  \/ \E r \in Req : AdminStatementFails(r)
  \/ \E r \in Req : AdminRespond(r)

SpecPaymentFlow == Init /\ [][NextPaymentFlow]_vars

\* ===================================================================
\* routes/subscriptionRoute.js: GET /onboarding-status
\* ===================================================================
HasSubscription == "show_welcome: false, has_subscription: true, isPro: true"
TrialActive == "show_welcome: false, has_trial: true, trial_active: true, isPro: false"
TrialInactive == "show_welcome: false, has_trial: true, trial_active: false, isPro: false"
ShowWelcome == "show_welcome: true, has_trial: false, has_subscription: false, isPro: false"
OnboardingFailed == "Failed to check onboarding status"

\* SELECT * FROM user_trials WHERE user_id = $1 LIMIT 1: the results the
\* store may return, a list of at most one row.
selectTrial(user_id) ==
  IF existingTrial(user_id) = {} THEN {<<>>}
  ELSE {<<user_trials[i]>> : i \in existingTrial(user_id)}

\* A subscription lookup that does not look at end_date.
activeSubscriptions_ignoreExpiry(user_id) ==
  {i \in DOMAIN user_subscriptions :
     /\ user_subscriptions[i].user_id = user_id
     /\ user_subscriptions[i].status = "active"}

\* ... FROM user_subscriptions WHERE user_id = $1 AND status = 'active'
\* AND end_date > CURRENT_TIMESTAMP
activeSubscriptions(user_id) ==
  {i \in DOMAIN user_subscriptions :
     /\ user_subscriptions[i].user_id = user_id
     /\ user_subscriptions[i].status = "active"
     /\ user_subscriptions[i].end_date > clock}

\* ... LIMIT 1, with no ORDER BY: any one of the rows.
selectSubscription(user_id) ==
  IF activeSubscriptions(user_id) = {} THEN {<<>>}
  ELSE {<<user_subscriptions[i]>> : i \in activeSubscriptions(user_id)}

\* The if-chain of the handler over the two results; now is new Date().
onboardingState(trial, subscription, d) ==
  IF Len(subscription) > 0 THEN HasSubscription
  ELSE IF Len(trial) > 0
       THEN IF trial[1].trial_end_date > d /\ trial[1].is_active
            THEN TrialActive
            ELSE TrialInactive
  ELSE ShowWelcome

\* The request arrives; Promise.all issues the two SELECTs.
OnboardingStatus(u) ==
  /\ oreq.pc = "idle"
  /\ oreq' = [OIdle EXCEPT !.pc = "o_read", !.user_id = u,
                           !.pending = {"trial", "subscription"}]
  /\ UNCHANGED <<flatVars, planVars, adminVars, call, sreq, mreq, hreq>>

\* When the last of the two results is in, Promise.all resolves and the
\* handler answers.
settle(q) ==
  IF q.pending # {} THEN q
  ELSE [OIdle EXCEPT !.pc = "done", !.user_id = q.user_id,
                     !.resp = onboardingState(q.existingTrial, q.existingSubscription,
                                              clock)]

OnboardingSelectTrial ==
  /\ oreq.pc = "o_read"
  /\ "trial" \in oreq.pending
  /\ \E rows \in selectTrial(oreq.user_id) :
       oreq' = settle([oreq EXCEPT !.pending = @ \ {"trial"}, !.existingTrial = rows])
  /\ UNCHANGED <<flatVars, planVars, adminVars, call, sreq, mreq, hreq>>

OnboardingSelectSubscription ==
  /\ oreq.pc = "o_read"
  /\ "subscription" \in oreq.pending
  /\ \E rows \in selectSubscription(oreq.user_id) :
       oreq' = settle([oreq EXCEPT !.pending = @ \ {"subscription"},
                                   !.existingSubscription = rows])
  /\ UNCHANGED <<flatVars, planVars, adminVars, call, sreq, mreq, hreq>>

\* One of the two statements rejects: the catch block answers 500.
OnboardingFails ==
  /\ oreq.pc = "o_read"
  /\ oreq' = [OIdle EXCEPT !.pc = "done", !.user_id = oreq.user_id,
                           !.resp = OnboardingFailed]
  /\ UNCHANGED <<flatVars, planVars, adminVars, call, sreq, mreq, hreq>>

OnboardingRespond ==
  /\ oreq.pc = "done"
  /\ oreq' = OIdle
  /\ UNCHANGED <<flatVars, planVars, adminVars, call, sreq, mreq, hreq>>

\* The days on which the request is made: in the first days, or when a
\* subscription period of DefaultDurationDays has run.
OnbDays == (1..MaxDay) \cup {DefaultDurationDays + d : d \in 1..MaxDay}

\* The trial records a user can have on day d: started (7 days, active),
\* started and then consumed by a payment, or skipped (start = end), on the
\* first day or on day d.
TrialRows(u, d) ==
  UNION {{[user_id |-> u, trial_start_date |-> s, trial_end_date |-> trialEndOf(s),
           is_active |-> TRUE],
          [user_id |-> u, trial_start_date |-> s, trial_end_date |-> trialEndOf(s),
           is_active |-> FALSE],
          [user_id |-> u, trial_start_date |-> s, trial_end_date |-> s,
           is_active |-> FALSE]} : s \in {1, d}}

\* The subscription rows a user can have on day d: approved on the first day
\* or on day d and still active, deactivated by a later approval, or
\* cancelled (end_date = the day of the cancellation).
SubscriptionRows(u, d) ==
  UNION {{newSubscription(u, 1, s + duration_days(1)),
          [newSubscription(u, 1, s + duration_days(1)) EXCEPT !.status = "inactive"],
          [newSubscription(u, 1, s) EXCEPT !.status = "cancelled"]} : s \in {1, d}}

\* The stores in which onboarding-status is asked: any day of OnbDays, no
\* trial record or one, up to MaxSubscriptions subscription rows, and the
\* payment that a subscription or a consumed trial comes from.
InitOnb ==
  /\ payments = <<>>
  /\ users = [u \in Users |-> NoUser]
  /\ req = [r \in Req |-> Idle]
  /\ now = 1
  /\ approveOk = {}
  /\ preq = [r \in Req |-> PIdle]
  /\ areq = [r \in Req |-> AIdle]
  /\ call = NoCall
  /\ oreq = OIdle
  /\ sreq = SIdle
  /\ mreq = MIdle
  /\ hreq = HIdle
  /\ clock \in OnbDays
  /\ \E u \in PlanUsers :
       /\ user_trials \in {<<>>} \cup {<<t>> : t \in TrialRows(u, clock)}
       /\ \E n \in 0..MaxSubscriptions :
            user_subscriptions \in [1..n -> SubscriptionRows(u, clock)]
       /\ payment_submissions \in
            {<<>>} \cup {<<[newSubmission(u, 1, "200.00", "TX1") EXCEPT !.status = st]>> :
                           st \in {"pending", "approved"}}
  /\ user_subscriptions # <<>>
       => payment_submissions # <<>> /\ payment_submissions[1].status = "approved"
  /\ (user_trials # <<>> /\ ~user_trials[1].is_active
        /\ user_trials[1].trial_end_date > user_trials[1].trial_start_date)
       => payment_submissions # <<>>

NextOnb ==
  \/ \E u \in PlanUsers : OnboardingStatus(u)
  \/ OnboardingSelectTrial
  \/ OnboardingSelectSubscription
  \/ OnboardingFails
  \/ OnboardingRespond

SpecOnb == InitOnb /\ [][NextOnb]_vars

\* ===================================================================
\* routes/subscriptionRoute.js: GET /my-subscription
\* ===================================================================
IsPro == "isPro: true, status: pro"
OnTrial == "isPro: false, status: trial"
Inactive == "isPro: false, status: inactive"
MySubscriptionFailed == "Failed to fetch subscription"

\* SELECT * FROM user_trials WHERE user_id = $1 AND is_active = true
\* AND trial_end_date > CURRENT_TIMESTAMP LIMIT 1
activeTrial(user_id) ==
  LET ids == {i \in DOMAIN user_trials :
                /\ user_trials[i].user_id = user_id
                /\ user_trials[i].is_active
                /\ user_trials[i].trial_end_date > clock}
  IN IF ids = {} THEN {<<>>} ELSE {<<user_trials[i]>> : i \in ids}

\* A CASE that does not look at the status column.
subscription_status_ignoreStatus(row) ==
  IF row.end_date > clock THEN "active" ELSE "expired"

\* CASE WHEN end_date > CURRENT_TIMESTAMP AND status = 'active' THEN 'active'
\*      WHEN end_date <= CURRENT_TIMESTAMP THEN 'expired' ELSE 'inactive' END
subscription_status(row) ==
  IF row.end_date > clock /\ row.status = "active" THEN "active"
  ELSE IF row.end_date <= clock THEN "expired"
  ELSE "inactive"

\* SELECT us.*, CASE ... END as subscription_status FROM user_subscriptions us
\* WHERE us.user_id = $1 ORDER BY us.created_at DESC LIMIT 1
subscription(user_id) ==
  LET i == existingSub(user_id) IN
  IF i = NULL THEN <<>>
  ELSE <<[id |-> i, subscription_status |-> subscription_status(user_subscriptions[i])]>>

\* The request arrives; Promise.all issues the two SELECTs.
MySubscription(u) ==
  /\ mreq.pc = "idle"
  /\ mreq' = [MIdle EXCEPT !.pc = "m_read", !.user_id = u,
                           !.pending = {"trial", "subscription"}]
  /\ UNCHANGED <<flatVars, planVars, adminVars, call, oreq, sreq, hreq>>

manswer(q, msg) == [MIdle EXCEPT !.pc = "done", !.user_id = q.user_id, !.resp = msg]

\* When both results are in: an active subscription answers pro, else an
\* active trial answers trial, else the handler goes on to two more SELECTs.
msettle(q) ==
  IF q.pending # {} THEN q
  ELSE IF Len(q.subscription) > 0 /\ q.subscription[1].subscription_status = "active"
       THEN manswer(q, IsPro)
  ELSE IF Len(q.activeTrial) > 0 THEN manswer(q, OnTrial)
  ELSE [q EXCEPT !.pc = "m_used"]

MySubscriptionSelectTrial ==
  /\ mreq.pc = "m_read"
  /\ "trial" \in mreq.pending
  /\ \E rows \in activeTrial(mreq.user_id) :
       mreq' = msettle([mreq EXCEPT !.pending = @ \ {"trial"}, !.activeTrial = rows])
  /\ UNCHANGED <<flatVars, planVars, adminVars, call, oreq, sreq, hreq>>

MySubscriptionSelectSubscription ==
  /\ mreq.pc = "m_read"
  /\ "subscription" \in mreq.pending
  /\ mreq' = msettle([mreq EXCEPT !.pending = @ \ {"subscription"},
                                  !.subscription = subscription(mreq.user_id)])
  /\ UNCHANGED <<flatVars, planVars, adminVars, call, oreq, sreq, hreq>>

\* SELECT * FROM user_trials WHERE user_id = $1 LIMIT 1 (usedTrial): its rows
\* only choose the message.
MySubscriptionSelectUsedTrial ==
  /\ mreq.pc = "m_used"
  /\ mreq' = [mreq EXCEPT !.pc = "m_expired"]
  /\ UNCHANGED <<flatVars, planVars, adminVars, call, oreq, sreq, hreq>>

\* SELECT ... WHERE end_date <= CURRENT_TIMESTAMP (expiredSubscription); then
\* the answer status 'inactive', isPro false.
MySubscriptionSelectExpired ==
  /\ mreq.pc = "m_expired"
  /\ mreq' = manswer(mreq, Inactive)
  /\ UNCHANGED <<flatVars, planVars, adminVars, call, oreq, sreq, hreq>>

\* An awaited statement rejects: the catch block answers 500.
MySubscriptionFails ==
  /\ mreq.pc \in {"m_read", "m_used", "m_expired"}
  /\ mreq' = manswer(mreq, MySubscriptionFailed)
  /\ UNCHANGED <<flatVars, planVars, adminVars, call, oreq, sreq, hreq>>

MySubscriptionRespond ==
  /\ mreq.pc = "done"
  /\ mreq' = MIdle
  /\ UNCHANGED <<flatVars, planVars, adminVars, call, oreq, sreq, hreq>>

\* A subscription period passes at once.
PeriodPasses ==
  /\ clock <= MaxDay
  /\ clock' = clock + DefaultDurationDays
  /\ UNCHANGED <<user_trials, payment_submissions, preq>>
  /\ UNCHANGED nonPlanVars

\* No handler that writes is running or unanswered; no read is.
WritersIdle == \A r \in Req : preq[r].pc = "idle" /\ areq[r].pc = "idle"

ReadersIdle == oreq.pc = "idle" /\ mreq.pc = "idle"

SequentialWrite == WritersIdle /\ ReadersIdle

\* subscriptionRoute.js beside adminSubscriptionRoute.js: users start trials
\* and submit, admins approve and cancel, one request at a time, a period of
\* DefaultDurationDays passes, and between two writes the two entitlement
\* reads are asked about one user, onboarding-status first and
\* my-subscription when it has answered.
NextEntitlement ==
  \/ SequentialWrite /\ \E r \in Req, u \in Users :
                          SubmitPayment(r, u, 1, "200.00", "telebirr", "TX1")
  \/ \E r \in Req : SubmitPaymentSelectPlan(r)
  \/ \E r \in Req : SubmitPaymentInsert(r)
  \/ \E r \in Req : SubmitPaymentConsumeTrial(r)
  \/ \E r \in Req : PlanRespond(r)
  \/ SequentialWrite /\ \E r \in Req, p \in PaymentIds : ApprovePayment(r, p, ADMIN_TOKEN)
  \/ \E r \in Req : ApprovePaymentSelect(r)
  \/ \E r \in Req : ApprovePaymentSelectPlan(r)
  \/ \E r \in Req : ApprovePaymentUpdate(r)
  \/ \E r \in Req : ApprovePaymentDeactivate(r)
  \/ \E r \in Req : ApprovePaymentInsert(r)
  \/ SequentialWrite /\ \E r \in Req, u \in Users : CancelSubscription(r, u, ADMIN_TOKEN)
  \/ \E r \in Req : CancelSubscriptionUpdate(r)
  \/ \E r \in Req : AdminStatementFails(r)
  \/ \E r \in Req : AdminRespond(r)
  \/ SequentialWrite /\ \E r \in Req, u \in Users : StartTrial(r, u)
  \/ \E r \in Req : StartTrialSelect(r)
  \/ \E r \in Req : StartTrialInsert(r)
  \/ SequentialWrite /\ PeriodPasses
  \/ WritersIdle /\ \E u \in Users : OnboardingStatus(u)
  \/ OnboardingSelectTrial
  \/ OnboardingSelectSubscription
  \/ OnboardingFails
  \/ mreq.pc \in {"idle", "done"} /\ OnboardingRespond
  \/ (oreq.pc = "done" /\ oreq.resp # OnboardingFailed) /\ MySubscription(oreq.user_id)
  \/ MySubscriptionSelectTrial
  \/ MySubscriptionSelectSubscription
  \/ MySubscriptionSelectUsedTrial
  \/ MySubscriptionSelectExpired
  \/ MySubscriptionFails
  \/ oreq.pc = "idle" /\ MySubscriptionRespond

SpecEntitlement == Init /\ [][NextEntitlement]_vars

\* ===================================================================
\* GET /payment-history of routes/paymentFlow.js and of
\* routes/subscriptionRoute.js
\* ===================================================================
HistoryFailed == "Failed to fetch payment history"

\* ORDER BY created_at DESC over rows that the table keeps in the order of
\* their INSERTs (created_at, submitted_at DEFAULT CURRENT_TIMESTAMP): the
\* row ids from the last inserted to the first.
RECURSIVE newestFirst_oldestFirst(_)
newestFirst_oldestFirst(ids) ==
  IF ids = {} THEN <<>>
  ELSE LET first == CHOOSE i \in ids : \A j \in ids : i <= j
       IN <<first>> \o newestFirst_oldestFirst(ids \ {first})

RECURSIVE newestFirst(_)
newestFirst(ids) ==
  IF ids = {} THEN <<>>
  ELSE LET last == CHOOSE i \in ids : \A j \in ids : j <= i
       IN <<last>> \o newestFirst(ids \ {last})

\* SELECT id, ... FROM payments WHERE clerk_user_id = $1 ORDER BY created_at DESC
paymentHistory(clerk_user_id) ==
  newestFirst({i \in DOMAIN payments : payments[i].clerk_user_id = clerk_user_id})

\* SELECT ps.*, sp.name FROM payment_submissions ps LEFT JOIN subscription_plans sp
\* WHERE ps.user_id = $1 ORDER BY ps.submitted_at DESC
submissionHistory(user_id) ==
  newestFirst({i \in DOMAIN payment_submissions :
                 payment_submissions[i].user_id = user_id})

\* The request arrives at one of the two routers.
PaymentHistory(router, u) ==
  /\ hreq.pc = "idle"
  /\ hreq' = [HIdle EXCEPT !.pc = "h_select", !.router = router, !.user_id = u]
  /\ UNCHANGED <<flatVars, planVars, adminVars, call, oreq, sreq, mreq>>

\* The SELECT resolves and the handler answers with its rows.
PaymentHistorySelect ==
  /\ hreq.pc = "h_select"
  /\ hreq' = [hreq EXCEPT !.pc = "done",
                          !.resp = IF hreq.router = "paymentFlow"
                                   THEN paymentHistory(hreq.user_id)
                                   ELSE submissionHistory(hreq.user_id)]
  /\ UNCHANGED <<flatVars, planVars, adminVars, call, oreq, sreq, mreq>>

\* The SELECT rejects: the catch block answers 500.
PaymentHistoryFails ==
  /\ hreq.pc = "h_select"
  /\ hreq' = [hreq EXCEPT !.pc = "done", !.error = HistoryFailed]
  /\ UNCHANGED <<flatVars, planVars, adminVars, call, oreq, sreq, mreq>>

PaymentHistoryRespond ==
  /\ hreq.pc = "done"
  /\ hreq' = HIdle
  /\ UNCHANGED <<flatVars, planVars, adminVars, call, oreq, sreq, mreq>>

\* No request of either router is being handled or is unanswered.
AllIdle ==
  /\ \A r \in Req : req[r].pc = "idle" /\ preq[r].pc = "idle"
  /\ hreq.pc = "idle"

\* Users of both routers submit payments and admins reject them, one request
\* at a time, and between two writes a user asks for the payment history.
NextHistory ==
  \/ AllIdle /\ \E r \in Req, u \in Users, t \in TxIds : StartSubmit(r, u, 200, t)
  \/ \E r \in Req : SubmitSelectUser(r)
  \/ \E r \in Req : SubmitSelectPending(r)
  \/ \E r \in Req : SubmitSelectTransaction(r)
  \/ \E r \in Req : SubmitInsert(r)
  \/ AllIdle /\ \E r \in Req, p \in PaymentIds, a \in Admins :
                  StartReject(r, p, a, "unverifiable")
  \/ \E r \in Req : RejectSelect(r)
  \/ \E r \in Req : RejectUpdate(r)
  \/ \E r \in Req : StatementFails(r)
  \/ \E r \in Req : Respond(r)
  \/ AllIdle /\ \E r \in Req, u \in Users :
                  SubmitPayment(r, u, 1, "200.00", "telebirr", "TX1")
  \/ \E r \in Req : SubmitPaymentSelectPlan(r)
  \/ \E r \in Req : SubmitPaymentInsert(r)
  \/ \E r \in Req : SubmitPaymentConsumeTrial(r)
  \/ \E r \in Req : PlanRespond(r)
  \/ AllIdle /\ \E router \in {"paymentFlow", "subscription"}, u \in Users :
                  PaymentHistory(router, u)
  \/ PaymentHistorySelect
  \/ PaymentHistoryFails
  \/ PaymentHistoryRespond

SpecHistory == Init /\ [][NextHistory]_vars

\* ===================================================================
\* The flat admin router: GET /stats
\* ===================================================================
StatsAnswered == "total_revenue, pro_users, pending_payments, total_payments"
StatsFailed == "Failed to get admin statistics"

StatsQueries == {"totalRevenue", "proUsers", "pendingPayments", "totalPayments"}

\* The rows that SELECT ... FROM payments WHERE status = $1 aggregates.
paymentsWithStatus(status) ==
  {i \in DOMAIN payments : payments[i].status = status}

\* The request arrives; Promise.all issues the four SELECTs.
Stats ==
  /\ sreq.pc = "idle"
  /\ sreq' = [SIdle EXCEPT !.pc = "st_read", !.pending = StatsQueries]
  /\ UNCHANGED <<flatVars, planVars, adminVars, call, oreq, mreq, hreq>>

\* The result of one of the four statements, each evaluated by the store on
\* its own: the rows it sums or counts.
statsResult(q, k) ==
  CASE k = "totalRevenue" -> [q EXCEPT !.revenue = paymentsWithStatus("approved")]
    [] k = "proUsers" -> [q EXCEPT !.proUsers = {u \in Users : userIsPro(u)}]
    [] k = "pendingPayments" ->
         [q EXCEPT !.pendingPayments = paymentsWithStatus("pending")]
    [] k = "totalPayments" -> [q EXCEPT !.totalPayments = paymentsWithStatus("approved")]

\* One statement resolves; when the last has, Promise.all resolves and the
\* handler answers with the four aggregates.
StatsQuery(k) ==
  /\ sreq.pc = "st_read"
  /\ k \in sreq.pending
  /\ LET q == statsResult([sreq EXCEPT !.pending = @ \ {k}], k) IN
     sreq' = IF q.pending = {}
             THEN [q EXCEPT !.pc = "done", !.resp = StatsAnswered]
             ELSE q
  /\ UNCHANGED <<flatVars, planVars, adminVars, call, oreq, mreq, hreq>>

\* One of the statements rejects: the catch block answers 500.
StatsFails ==
  /\ sreq.pc = "st_read"
  /\ sreq' = [SIdle EXCEPT !.pc = "done", !.resp = StatsFailed]
  /\ UNCHANGED <<flatVars, planVars, adminVars, call, oreq, mreq, hreq>>

StatsRespond ==
  /\ sreq.pc = "done"
  /\ sreq' = SIdle
  /\ UNCHANGED <<flatVars, planVars, adminVars, call, oreq, mreq, hreq>>

\* A stats request beside submissions and approvals that are handled one at
\* a time.
NextStats ==
  \/ Quiescent /\ \E r \in Req, u \in Users, t \in TxIds : StartSubmit(r, u, 200, t)
  \/ \E r \in Req : SubmitSelectUser(r)
  \/ \E r \in Req : SubmitSelectPending(r)
  \/ \E r \in Req : SubmitSelectTransaction(r)
  \/ \E r \in Req : SubmitInsert(r)
  \/ Quiescent /\ \E r \in Req, p \in PaymentIds, a \in Admins : StartApprove(r, p, a)
  \/ \E r \in Req : ApproveSelect(r)
  \/ \E r \in Req : ApproveUpdate(r)
  \/ \E r \in Req : ApproveUpsert(r)
  \/ \E r \in Req : Respond(r)
  \/ Stats
  \/ \E k \in StatsQueries : StatsQuery(k)
  \/ StatsFails
  \/ StatsRespond

SpecStats == Init /\ [][NextStats]_vars

\* ===================================================================
\* config/db.js: sqlWithRetry(query, params = [], maxRetries = 2) and
\* testConnection(maxRetries = 3)
\* ===================================================================
DefaultMaxRetries == 2
DefaultTestRetries == 3

\* The values of maxRetries a caller passes: the defaults, and values down
\* to -1.
RetryLimits == (-1)..DefaultTestRetries

Queries == {"INSERT", "UPDATE"}

\* The errors with which an awaited statement rejects: the connection failed,
\* or the store refused the statement (a unique constraint, a check).
SqlErrors == {"connection", "unique_violation", "check_violation"}

\* for (let attempt = 1; attempt <= maxRetries; attempt++): the loop runs
\* its body, or it is left and the async function ends with no return
\* statement, that is, it resolves to undefined.
loopTest(c) ==
  IF c.attempt <= c.maxRetries
  THEN [c EXCEPT !.pc = "try"]
  ELSE [c EXCEPT !.pc = "returned", !.outcome = "undefined"]

\* A caller invokes sqlWithRetry; the loop starts with attempt = 1.
CallSqlWithRetry(query, maxRetries) ==
  /\ call.pc = "idle"
  /\ call' = loopTest([NoCall EXCEPT !.fn = "sqlWithRetry", !.query = query,
                                     !.maxRetries = maxRetries, !.attempt = 1])
  /\ UNCHANGED <<flatVars, planVars, adminVars, readVars>>

\* A caller invokes testConnection, whose statement is SELECT 1 as test.
CallTestConnection(maxRetries) ==
  /\ call.pc = "idle"
  /\ call' = loopTest([NoCall EXCEPT !.fn = "testConnection", !.query = "SELECT 1",
                                     !.maxRetries = maxRetries, !.attempt = 1])
  /\ UNCHANGED <<flatVars, planVars, adminVars, readVars>>

\* The awaited statement resolves: return result, or
\* return { connected: true, result: result[0] }.
SqlResolves ==
  /\ call.pc = "try"
  /\ call' = [call EXCEPT !.pc = "returned",
                          !.outcome = IF call.fn = "testConnection"
                                      THEN "connected: true" ELSE "result"]
  /\ UNCHANGED <<flatVars, planVars, adminVars, readVars>>

\* A catch block that gives up one attempt early.
afterError_oneShort(attempt, maxRetries, error) ==
  IF attempt + 1 < maxRetries THEN "wait" ELSE "last"

\* The catch block decides on the attempt number alone: wait and run the
\* statement again while attempt < maxRetries, give up otherwise.
afterError(attempt, maxRetries, error) ==
  IF attempt < maxRetries THEN "wait" ELSE "last"

\* The awaited statement rejects with error e.  Giving up is throw error in
\* sqlWithRetry and return { connected: false, error } in testConnection.
SqlRejects(e) ==
  /\ call.pc = "try"
  /\ call.fn = "testConnection" => e = "connection"
  /\ LET c == [call EXCEPT !.errors = Append(@, e)] IN
     call' = IF afterError(call.attempt, call.maxRetries, e) = "wait"
             THEN [c EXCEPT !.pc = "wait"]
             ELSE IF call.fn = "testConnection"
             THEN [c EXCEPT !.pc = "returned", !.outcome = "connected: false"]
             ELSE [c EXCEPT !.pc = "thrown", !.outcome = e]
  /\ UNCHANGED <<flatVars, planVars, adminVars, readVars>>

\* The wait is over: continue, that is attempt++ and the loop test.
RetryAfterWait ==
  /\ call.pc = "wait"
  /\ call' = loopTest([call EXCEPT !.attempt = @ + 1])
  /\ UNCHANGED <<flatVars, planVars, adminVars, readVars>>

\* The caller has taken the result or the error.
CallEnds ==
  /\ call.pc \in {"returned", "thrown"}
  /\ call' = NoCall
  /\ UNCHANGED <<flatVars, planVars, adminVars, readVars>>

NextRetry ==
  \/ \E q \in Queries, m \in RetryLimits : CallSqlWithRetry(q, m)
  \/ \E m \in RetryLimits : CallTestConnection(m)
  \/ SqlResolves
  \/ \E e \in SqlErrors : SqlRejects(e)
  \/ RetryAfterWait
  \/ CallEnds

SpecRetry == Init /\ [][NextRetry]_vars

\* ===================================================================
\* Properties
\* ===================================================================
ApproveInProgress(i) ==
  \E r \in Req : req[r].op = "approve" /\ req[r].paymentId = i
                 /\ req[r].pc \in {"a_select", "a_update", "a_upsert"}

PassedPendingCheck(r) ==
  req[r].op = "approve" /\ req[r].pc \in {"a_update", "a_upsert"}

\* C1: every user whose is_pro flag is true has at least one payment with
\* status 'approved'.
C1_ProHasApprovedPayment ==
  \A u \in Users :
    userIsPro(u) =>
      \E i \in DOMAIN payments :
        payments[i].clerk_user_id = u /\ payments[i].status = "approved"

\* C2: of the approve requests running on one payment, at most one is past
\* the status == 'pending' check (about to perform, or performing, the
\* approval writes).
C2_SingleApprover ==
  \A r1, r2 \in Req :
    (r1 # r2 /\ PassedPendingCheck(r1) /\ PassedPendingCheck(r2))
      => req[r1].paymentId # req[r2].paymentId

\* C3: each user has at most one payment with status 'pending'.
C3_OnePendingPerUser ==
  \A u \in Users : Cardinality(existingPending(u)) <= 1

\* C4: no two rows of the payments ledger carry the same transaction_id.
C4_UniqueTransactionId ==
  \A i, j \in DOMAIN payments :
    i # j => payments[i].transaction_id # payments[j].transaction_id

\* C5: a payment's status changes only from 'pending' to 'approved' or from
\* 'pending' to 'rejected'; 'approved' and 'rejected' are terminal.
C5_StatusTransitions ==
  [][\A i \in DOMAIN payments :
       payments'[i].status # payments[i].status
         => /\ payments[i].status = "pending"
            /\ payments'[i].status \in {"approved", "rejected"}]_vars

\* C6: an approve call that finds its payment already 'approved' ends at
\* once with the 'Payment already approved' success (a failed read ends it
\* with the 500 response) and writes nothing: payments and users, hence the
\* payment's status, admin_id and processed_at and the user's is_pro and
\* pro_since, are the same after the call.
C6_ReapproveIsNoop ==
  [][\A r \in Req :
       (/\ req[r].pc = "a_select"
        /\ req'[r] # req[r]
        /\ req[r].paymentId \in DOMAIN payments
        /\ payments[req[r].paymentId].status = "approved")
         => /\ req'[r].pc = "done"
            /\ req'[r].resp \in {AlreadyApproved, ApproveFailed}
            /\ payments' = payments
            /\ users' = users]_vars

C6_Witness ==
  \E r \in Req :
    /\ req[r].op = "approve" /\ req[r].pc = "done"
    /\ req[r].resp = AlreadyApproved
    /\ payments[req[r].paymentId].status = "approved"
    /\ payments[req[r].paymentId].processed_at # NULL
    /\ userIsPro(payments[req[r].paymentId].clerk_user_id)
    /\ \A q \in Req : q # r => req[q].pc \in {"idle", "done"}

\* C7: a reject (with a reason) of an 'approved' payment and an approve of a
\* 'rejected' payment each end with the 'Invalid payment status' error (or
\* the 500 response of a failed read) and leave payments and users as they
\* were.
C7_InvalidTransitionRefused ==
  [][\A r \in Req :
       (/\ req'[r] # req[r]
        /\ req[r].paymentId \in DOMAIN payments
        /\ \/ /\ req[r].pc = "r_select"
              /\ payments[req[r].paymentId].status = "approved"
           \/ /\ req[r].pc = "a_select"
              /\ payments[req[r].paymentId].status = "rejected")
         => /\ req'[r].pc = "done"
            /\ req'[r].resp \in {InvalidStatus, ApproveFailed, RejectFailed}
            /\ payments' = payments
            /\ users' = users]_vars

C7_Witness ==
  \E r1, r2 \in Req :
    /\ req[r1].op = "reject" /\ req[r1].pc = "done"
    /\ req[r1].resp = InvalidStatus
    /\ payments[req[r1].paymentId].status = "approved"
    /\ req[r2].op = "approve" /\ req[r2].pc = "done"
    /\ req[r2].resp = InvalidStatus
    /\ payments[req[r2].paymentId].status = "rejected"

\* C8: a pro-status call that starts after an approve call has answered
\* success for a payment of that user reports isPro = true.
C8_ProStatusAfterApproval ==
  \A r \in Req :
    (req[r].op = "pro-status" /\ req[r].pc = "done" /\ req[r].after
       /\ req[r].resp # ProStatusFailed)
      => req[r].resp = IsProMsg

\* C9: approve is all-or-nothing: while no approve request is in progress on
\* it, an 'approved' payment's user is Pro.
C9_ApprovedImpliesPro ==
  \A i \in DOMAIN payments :
    (payments[i].status = "approved" /\ ~ApproveInProgress(i))
      => userIsPro(payments[i].clerk_user_id)

\* C10 (as amended): a submit-payment whose transaction_id is already in the
\* ledger when the request arrives never reaches the INSERT and never
\* answers success; when it gets as far as the transaction-id lookup it
\* answers 'Transaction ID already used' (or 500 if that lookup fails).
C10_DuplicateNeverInserted ==
  [][\A r \in Req :
       (req[r].op = "submit" /\ req[r].dup /\ req'[r] # req[r])
         => /\ req'[r].pc # "s_insert"
            /\ req'[r].resp # Submitted
            /\ payments' = payments
            /\ req[r].pc = "s_tx" => req'[r].resp \in {TxUsed, SubmitFailed}]_vars

C10_Witness ==
  \E r \in Req :
    /\ req[r].op = "submit" /\ req[r].pc = "done" /\ req[r].dup
    /\ req[r].resp = TxUsed
    /\ payments # <<>>
    /\ \A i \in DOMAIN payments : payments[i].status = "rejected"

\* C10 (as stated): a well-formed submit-payment whose transaction_id is
\* already in the ledger is answered 'Transaction ID already used' whenever
\* the store answers.
C10_AlwaysTxUsed ==
  \A r \in Req :
    (req[r].op = "submit" /\ req[r].pc = "done" /\ req[r].dup
       /\ req[r].resp \notin {MissingFields, SubmitFailed})
      => req[r].resp = TxUsed

\* C11: submit-payment tests its preconditions in the order (1) required
\* fields, (2) user not Pro, (3) no pending payment of the user, (4)
\* transaction id unused, and answers with the first that fails (a failed
\* read answers 500).  A request is past the validation only with both
\* fields present, each later test is made only after the earlier ones have
\* passed, and a step that does not answer success inserts no row.
C11_FirstFailureWins ==
  [][\A r \in Req :
       (req'[r] # req[r] /\ req'[r].op = "submit")
         => /\ req[r].pc = "idle"
                 => \/ req'[r].pc = "done" /\ req'[r].resp = MissingFields
                    \/ /\ req'[r].pc = "s_user"
                       /\ req'[r].amount # 0 /\ req'[r].transaction_id # ""
            /\ req[r].pc = "s_user"
                 => IF /\ users[req[r].clerk_user_id].present
                       /\ users[req[r].clerk_user_id].is_pro
                    THEN req'[r].pc = "done" /\ req'[r].resp \in {AlreadyPro, SubmitFailed}
                    ELSE \/ req'[r].pc = "s_pending"
                         \/ req'[r].pc = "done" /\ req'[r].resp = SubmitFailed
            /\ req[r].pc = "s_pending"
                 => IF \E i \in DOMAIN payments :
                         /\ payments[i].clerk_user_id = req[r].clerk_user_id
                         /\ payments[i].status = "pending"
                    THEN req'[r].pc = "done" /\ req'[r].resp \in {PendingExists, SubmitFailed}
                    ELSE \/ req'[r].pc = "s_tx"
                         \/ req'[r].pc = "done" /\ req'[r].resp = SubmitFailed
            /\ req[r].pc = "s_tx"
                 => IF \E i \in DOMAIN payments :
                         payments[i].transaction_id = req[r].transaction_id
                    THEN req'[r].pc = "done" /\ req'[r].resp \in {TxUsed, SubmitFailed}
                    ELSE \/ req'[r].pc = "s_insert"
                         \/ req'[r].pc = "done" /\ req'[r].resp = SubmitFailed
            /\ req'[r].resp # Submitted => payments' = payments
            /\ req'[r].resp = Submitted
                 => req[r].pc = "s_insert" /\ Len(payments') = Len(payments) + 1]_vars

\* A Pro user has submitted a transaction id that is already in the ledger
\* and was answered 'User already has Pro status'.
C11_Witness ==
  \E r \in Req :
    /\ req[r].op = "submit" /\ req[r].pc = "done" /\ req[r].dup
    /\ req[r].resp = AlreadyPro
    /\ \E u \in Users : userIsPro(u)

\* C18: a reject without a reason is answered 'Rejection reason required'
\* before any statement is sent (it never reaches the SELECT) and writes
\* nothing, whatever the addressed payment; a reject with a reason whose
\* UPDATE runs on a pending payment sets status 'rejected', the given
\* reason, the admin and processed_at, answers success, and the owner of the
\* payment is not Pro before or after.
C18_RejectValidatesThenRejects ==
  [][\A r \in Req :
       (req'[r] # req[r] /\ req'[r].op = "reject")
         => /\ req[r].pc = "idle"
                 => /\ \/ req'[r].pc = "done" /\ req'[r].resp = ReasonRequired
                       \/ req'[r].pc = "r_select" /\ req'[r].rejection_reason # ""
                    /\ payments' = payments /\ users' = users
            /\ req'[r].resp = ReasonRequired => req[r].pc = "idle"
            /\ (/\ req[r].pc = "r_update"
                /\ payments[req[r].paymentId].status = "pending"
                /\ req'[r].resp # RejectFailed)
                 => LET id == req[r].paymentId
                        owner == payments[id].clerk_user_id IN
                    /\ req'[r].resp = Rejected
                    /\ payments'[id].status = "rejected"
                    /\ payments'[id].rejection_reason = req[r].rejection_reason
                    /\ payments'[id].rejection_reason # ""
                    /\ payments'[id].admin_id = req[r].admin_id
                    /\ payments'[id].processed_at = now
                    /\ payments'[id].processed_at # NULL
                    /\ ~(users[owner].present /\ users[owner].is_pro)
                    /\ users' = users]_vars

\* A reject with a reason has turned a pending payment into a rejected one,
\* and a later reject of that payment without a reason was refused.
C18_Witness ==
  \E r \in Req :
    /\ req[r].op = "reject" /\ req[r].pc = "done"
    /\ req[r].resp = ReasonRequired
    /\ req[r].paymentId \in DOMAIN payments
    /\ payments[req[r].paymentId].status = "rejected"
    /\ payments[req[r].paymentId].rejection_reason = "unverifiable"
    /\ \E i \in DOMAIN payments : payments[i].status = "pending"

\* C19: no step of a reject request changes the users table or a payment
\* other than the addressed one; a reject that reads its payment as
\* 'rejected' answers 'Payment already rejected' (success) at once, or 500 if
\* the read fails, and leaves the ledger, hence the stored rejection_reason,
\* admin_id and processed_at, as it was.
C19_RejectFrame ==
  [][\A r \in Req :
       (req'[r] # req[r] /\ req'[r].op = "reject")
         => /\ users' = users
            /\ DOMAIN payments' = DOMAIN payments
            /\ \A i \in DOMAIN payments :
                 i # req'[r].paymentId => payments'[i] = payments[i]
            /\ (/\ req[r].pc = "r_select"
                /\ req[r].paymentId \in DOMAIN payments
                /\ payments[req[r].paymentId].status = "rejected")
                 => /\ req'[r].pc = "done"
                    /\ req'[r].resp \in {AlreadyRejected, RejectFailed}
                    /\ payments' = payments]_vars

\* A rejected payment has been rejected again with another reason; the call
\* was answered 'Payment already rejected' and the ledger still holds the
\* first reason.
C19_Witness ==
  \E r \in Req :
    /\ req[r].op = "reject" /\ req[r].pc = "done"
    /\ req[r].resp = AlreadyRejected
    /\ payments[req[r].paymentId].status = "rejected"
    /\ payments[req[r].paymentId].rejection_reason # req[r].rejection_reason
    /\ \E i \in DOMAIN payments : i # req[r].paymentId

\* C12: of two finished start-trial calls of one user, when one was answered
\* with the started trial the other was answered 'Trial already used' (or
\* 500 for a failed connection).
C12_ConcurrentStartTrial ==
  \A r1, r2 \in Req :
    (/\ r1 # r2
     /\ preq[r1].op = "start-trial" /\ preq[r1].pc = "done"
     /\ preq[r2].op = "start-trial" /\ preq[r2].pc = "done"
     /\ preq[r1].user_id = preq[r2].user_id
     /\ preq[r1].resp = TrialStarted)
      => preq[r2].resp \in {TrialUsed, StartTrialFailed}

\* C13: a start-trial that finds no trial record of the user inserts exactly
\* one, with is_active = true and trial_end_date = trial_start_date + 7 days,
\* and answers with the started trial; a start-trial that finds a record
\* answers 'Trial already used' and leaves user_trials as it was, whether
\* that trial is still running or not (500 and no write if a statement
\* fails).
C13_StartTrialOnce ==
  [][\A r \in Req :
       (preq'[r] # preq[r] /\ preq[r].op = "start-trial")
         => LET u == preq[r].user_id
                had == \E i \in DOMAIN user_trials : user_trials[i].user_id = u IN
            /\ (preq[r].pc = "t_select" /\ had)
                 => /\ preq'[r].pc = "done"
                    /\ preq'[r].resp \in {TrialUsed, StartTrialFailed}
                    /\ user_trials' = user_trials
            /\ (preq[r].pc = "t_select" /\ ~had)
                 => /\ \/ preq'[r].pc = "t_insert"
                       \/ preq'[r].pc = "done" /\ preq'[r].resp = StartTrialFailed
                    /\ user_trials' = user_trials
            /\ (preq[r].pc = "t_insert" /\ preq'[r].resp # StartTrialFailed)
                 => /\ ~had
                    /\ preq'[r].resp = TrialStarted
                    /\ Len(user_trials') = Len(user_trials) + 1
                    /\ SubSeq(user_trials', 1, Len(user_trials)) = user_trials
                    /\ LET row == user_trials'[Len(user_trials')] IN
                       /\ row.user_id = u
                       /\ row.is_active
                       /\ row.trial_start_date <= clock
                       /\ row.trial_end_date = row.trial_start_date + TrialDays
            /\ preq'[r].resp = StartTrialFailed => user_trials' = user_trials]_vars

\* A second start-trial was answered 'Trial already used' after the first
\* trial had run out, and the record is still the one the first call wrote.
C13_Witness ==
  \E r \in Req :
    /\ preq[r].op = "start-trial" /\ preq[r].pc = "done"
    /\ preq[r].resp = TrialUsed
    /\ Len(user_trials) = 1
    /\ user_trials[1].user_id = preq[r].user_id
    /\ user_trials[1].is_active
    /\ user_trials[1].trial_end_date = user_trials[1].trial_start_date + TrialDays
    /\ user_trials[1].trial_end_date <= clock

\* C14: once a user has a trial record and the trial is not active
\* (is_active and now < trial_end_date is false), it is not active after any
\* step of start-trial, skip-trial, submit-payment or the clock; and no user
\* ever has more than one trial record.
C14_TrialNeverRestarts ==
  [][/\ \A u \in PlanUsers :
          (existingTrial(u) # {} /\ ~trialActive(u)) => ~trialActive(u)'
     /\ \A u \in PlanUsers :
          Cardinality({i \in DOMAIN user_trials' : user_trials'[i].user_id = u}) <= 1]_vars

\* A user whose trial was started and then consumed by a payment submission
\* before its end date asked to start a trial again and was refused; the
\* record keeps its future end date and is inactive.
C14_Witness ==
  \E r \in Req, i \in DOMAIN user_trials :
    /\ preq[r].op = "start-trial" /\ preq[r].pc = "done"
    /\ preq[r].resp = TrialUsed
    /\ user_trials[i].user_id = preq[r].user_id
    /\ ~user_trials[i].is_active
    /\ user_trials[i].trial_end_date > clock
    /\ payment_submissions # <<>>

\* C15: a finished skip-trial call was answered 'Trial skipped successfully'
\* (unless the connection failed), and its user has exactly one trial
\* record, inactive, with trial_start_date = trial_end_date.
C15_SkipAlwaysSucceeds ==
  \A r \in Req :
    (preq[r].op = "skip-trial" /\ preq[r].pc = "done" /\ preq[r].resp # SkipTrialFailed)
      => /\ preq[r].resp = TrialSkipped
         /\ Cardinality(existingTrial(preq[r].user_id)) = 1
         /\ \A i \in existingTrial(preq[r].user_id) :
              /\ ~user_trials[i].is_active
              /\ user_trials[i].trial_start_date = user_trials[i].trial_end_date

\* C16: a user who owns a payment_submissions row has a trial record, in
\* every state in which no submit-payment call of that user is running.
C16_PayerHasTrialRecord ==
  \A i \in DOMAIN payment_submissions :
    (\A r \in Req : ~(/\ preq[r].op = "submit-payment"
                      /\ preq[r].pc \notin {"idle", "done"}
                      /\ preq[r].user_id = payment_submissions[i].user_id))
      => existingTrial(payment_submissions[i].user_id) # {}

\* C17: a plan-based submit-payment call that answers an error has added no
\* payment row: it does not answer an error once its INSERT INTO
\* payment_submissions has run.
C17_ErrorMeansNoRow ==
  [][\A r \in Req :
       (/\ preq[r].op = "submit-payment"
        /\ preq[r].pc # "done" /\ preq'[r].pc = "done"
        /\ preq'[r].resp # PlanSubmitted)
         => preq[r].pc # "p_trial"]_vars

\* C20: a plan-based submit-payment whose plan id names no active plan is
\* answered 'Subscription plan not found', and one whose amount differs from
\* the active plan's price is answered with the amount-mismatch error (500
\* if the plan SELECT fails); only a matching amount on an active plan
\* reaches the INSERT.  No step that answers one of these errors writes
\* payment_submissions or user_trials, and they are answered before any
\* write of the call.
C20_PlanAndAmountChecked ==
  [][\A r \in Req :
       (preq'[r] # preq[r] /\ preq[r].op = "submit-payment")
         => LET id == preq[r].plan_id
                known == id \in DOMAIN subscription_plans
                           /\ subscription_plans[id].is_active IN
            /\ (preq[r].pc = "p_plan" /\ ~known)
                 => preq'[r].pc = "done"
                    /\ preq'[r].resp \in {PlanNotFound, PlanSubmitFailed}
            /\ (preq[r].pc = "p_plan" /\ known
                  /\ parseFloat(preq[r].amount) # parseFloat(subscription_plans[id].price))
                 => preq'[r].pc = "done"
                    /\ preq'[r].resp \in {AmountMismatch, PlanSubmitFailed}
            /\ preq'[r].pc = "p_insert"
                 => /\ known
                    /\ parseFloat(preq[r].amount) = parseFloat(subscription_plans[id].price)
            /\ preq'[r].resp \in {PlanNotFound, AmountMismatch}
                 => /\ preq[r].pc = "p_plan"
                    /\ payment_submissions' = payment_submissions
                    /\ user_trials' = user_trials]_vars

\* 150.00 was submitted against the 200.00 plan and refused with the
\* amount-mismatch error; neither table has a row.
C20_Witness ==
  \E r \in Req :
    /\ preq[r].op = "submit-payment" /\ preq[r].pc = "done"
    /\ preq[r].resp = AmountMismatch
    /\ preq[r].amount = "150.00"
    /\ subscription_plans[preq[r].plan_id].price = "200.00"
    /\ payment_submissions = <<>>
    /\ user_trials = <<>>

\* C23: in payment_submissions each user has at most one row with status
\* 'pending'.
C23_OnePendingSubmissionPerUser ==
  \A i, j \in DOMAIN payment_submissions :
    (/\ payment_submissions[i].user_id = payment_submissions[j].user_id
     /\ payment_submissions[i].status = "pending"
     /\ payment_submissions[j].status = "pending")
      => i = j

\* C24: no two rows of payment_submissions carry the same transaction_code.
C24_UniqueTransactionCode ==
  \A i, j \in DOMAIN payment_submissions :
    payment_submissions[i].transaction_code = payment_submissions[j].transaction_code
      => i = j

C28_UserOf(r) ==
  IF req[r].op \in {"approve", "reject"}
  THEN payments[req[r].paymentId].clerk_user_id
  ELSE req[r].clerk_user_id

\* One step of a running request depends on and changes the records of its
\* own user only: the rows of other users and their users record are left
\* as they were, and each decision of the handler is the one that the rows
\* of its own user give.  The transaction-id lookup of submit-payment reads
\* the rows of its own user when ownRowsOnly, of every user otherwise.
C28_StepIsLocal(ownRowsOnly) ==
  \A r \in Req :
    (/\ req'[r] # req[r]
     /\ req[r].pc \notin {"idle", "done"}
     /\ req[r].op \in {"approve", "reject"} => req[r].paymentId \in DOMAIN payments
     /\ req'[r].resp # failureMessage(req[r].op))
      => LET u == C28_UserOf(r)
             own == {i \in DOMAIN payments : payments[i].clerk_user_id = u}
             txRows == IF ownRowsOnly THEN own ELSE DOMAIN payments IN
         /\ \A i \in DOMAIN payments \ own : payments'[i] = payments[i]
         /\ \A i \in DOMAIN payments' \ DOMAIN payments : payments'[i].clerk_user_id = u
         /\ \A v \in Users \ {u} : users'[v] = users[v]
         /\ req[r].pc = "s_user"
              => (req'[r].resp = AlreadyPro <=> users[u].present /\ users[u].is_pro)
         /\ req[r].pc = "s_pending"
              => (req'[r].resp = PendingExists
                    <=> \E i \in own : payments[i].status = "pending")
         /\ req[r].pc = "s_tx"
              => (req'[r].resp = TxUsed
                    <=> \E i \in txRows : payments[i].transaction_id = req[r].transaction_id)
         /\ req[r].pc = "s_insert" => req'[r].resp = Submitted
         /\ req[r].pc = "g_select"
              => (req'[r].resp = IsProMsg <=> users[u].present /\ users[u].is_pro)
         /\ req[r].pc = "a_select"
              => /\ req'[r].pc = "a_update" <=> payments[req[r].paymentId].status = "pending"
                 /\ req'[r].resp = AlreadyApproved
                      <=> payments[req[r].paymentId].status = "approved"
         /\ req[r].pc = "r_select"
              => /\ req'[r].pc = "r_update" <=> payments[req[r].paymentId].status = "pending"
                 /\ req'[r].resp = AlreadyRejected
                      <=> payments[req[r].paymentId].status = "rejected"

C25_RetryOnlyTransient ==
  \A i \in DOMAIN call.errors :
    call.errors[i] # "connection" => (i = Len(call.errors) /\ call.pc = "thrown")

\* C21: in user_subscriptions every user has at most one row with status
\* 'active'.
C21_OneActiveSubscription ==
  \A u \in PlanUsers :
    Cardinality({i \in DOMAIN user_subscriptions :
                   /\ user_subscriptions[i].user_id = u
                   /\ user_subscriptions[i].status = "active"}) <= 1

\* C22: a user who has an active subscription that has not run out owns a
\* payment_submissions row that was accepted by an admin (status 'approved',
\* or 'verified' as the paymentFlow router writes it).
C22_PaidAccessNeedsApprovedPayment ==
  \A i \in DOMAIN user_subscriptions :
    (user_subscriptions[i].status = "active" /\ user_subscriptions[i].end_date > clock)
      => \E j \in DOMAIN payment_submissions :
           /\ payment_submissions[j].user_id = user_subscriptions[i].user_id
           /\ payment_submissions[j].status \in {"approved", "verified"}

\* C30: a step of an admin request whose caller does not hold the admin
\* token ends the request with 'Admin access required' and changes neither
\* payment_submissions nor user_subscriptions.
C30_AdminOnly ==
  [][\A r \in Req :
       (/\ areq'[r] # areq[r]
        /\ areq'[r].op # "idle"
        /\ areq'[r].admin_token # ADMIN_TOKEN)
         => /\ areq'[r].pc = "done"
            /\ areq'[r].resp = AdminRequired
            /\ payment_submissions' = payment_submissions
            /\ user_subscriptions' = user_subscriptions]_vars

\* C26: onboarding-status writes to no table, and its answer is decided in
\* this order: the user has a subscription with status 'active' and end_date
\* in the future -> has_subscription, isPro true; else the user has a trial
\* record with is_active and trial_end_date in the future -> trial active;
\* else the user has a trial record -> trial inactive; else -> show_welcome
\* (500 if a statement fails).
C26_OnboardingStatus ==
  [][oreq' # oreq
       => /\ UNCHANGED <<user_trials, user_subscriptions, payment_submissions,
                         payments, users>>
          /\ (oreq'.pc = "done" /\ oreq'.resp # OnboardingFailed)
               => LET u == oreq.user_id
                      subscribed == \E i \in DOMAIN user_subscriptions :
                                      /\ user_subscriptions[i].user_id = u
                                      /\ user_subscriptions[i].status = "active"
                                      /\ user_subscriptions[i].end_date > clock
                      onTrial == \E i \in DOMAIN user_trials :
                                   /\ user_trials[i].user_id = u
                                   /\ user_trials[i].is_active
                                   /\ user_trials[i].trial_end_date > clock
                      hasTrial == \E i \in DOMAIN user_trials : user_trials[i].user_id = u
                  IN oreq'.resp = IF subscribed THEN HasSubscription
                                  ELSE IF onTrial THEN TrialActive
                                  ELSE IF hasTrial THEN TrialInactive
                                  ELSE ShowWelcome]_vars

\* A user whose trial is running and who has two subscription rows marked
\* 'active', one run out and one not, was answered has_subscription.
C26_Witness ==
  /\ oreq.pc = "done"
  /\ oreq.resp = HasSubscription
  /\ trialActive(oreq.user_id)
  /\ \E i \in DOMAIN user_subscriptions :
       user_subscriptions[i].status = "active" /\ user_subscriptions[i].end_date <= clock

\* C27: in an answered stats request no payment is among the rows counted
\* as pending and also among the rows summed as approved revenue or counted
\* as approved.
C27_NoDoubleCount ==
  (sreq.pc = "done" /\ sreq.resp = StatsAnswered)
    => sreq.pendingPayments \cap (sreq.revenue \cup sreq.totalPayments) = {}

\* A step of an approve or reject request that addresses a payment id not in
\* the ledger ends the request, with one of the answers in allowed, and
\* changes neither payments nor users.
C32_MissingPayment(allowed) ==
  \A r \in Req :
    (/\ req'[r] # req[r]
     /\ req'[r].op \in {"approve", "reject"}
     /\ req'[r].paymentId \notin DOMAIN payments
     /\ req'[r].pc \notin {"a_select", "r_select"})
      => /\ req'[r].pc = "done"
         /\ req'[r].resp \in allowed \cup {ApproveFailed, RejectFailed}
         /\ payments' = payments
         /\ users' = users

\* C32 as stated: approve and reject of a payment id that does not exist are
\* answered 'Payment not found' (500 if the statement fails) and change no
\* payment and no users record.
C32_MissingIsNotFound == [][C32_MissingPayment({NotFound})]_vars

\* C32 amended: the same, except that a reject sent without a rejection
\* reason is answered 'Rejection reason required' before the payment is
\* looked up.
C32_MissingIsNotFoundOrNoReason ==
  [][/\ C32_MissingPayment({NotFound, ReasonRequired})
     /\ \A r \in Req :
          (req'[r] # req[r] /\ req'[r].resp = ReasonRequired)
            => req'[r].op = "reject" /\ req'[r].rejection_reason = ""]_vars

\* A reject (with a reason) of a payment id beyond the ledger was answered
\* 'Payment not found' while the ledger holds one payment, still pending.
C32_Witness ==
  \E r \in Req :
    /\ req[r].op = "reject" /\ req[r].pc = "done" /\ req[r].resp = NotFound
    /\ req[r].rejection_reason # ""
    /\ req[r].paymentId \notin DOMAIN payments
    /\ Len(payments) = 1 /\ payments[1].status = "pending"

\* The number of times the running call has executed its statement.
C33_Executions ==
  Len(call.errors) + (IF call.pc = "returned" /\ call.outcome \in {"result", "connected: true"}
                      THEN 1 ELSE 0)

\* C33: a call of sqlWithRetry or testConnection executes its statement at
\* most maxRetries times (never, for maxRetries < 1); every step of the call
\* advances it, a successful execution ends it with that result, and a call
\* whose maxRetries executions all failed throws the last error
\* (sqlWithRetry) or returns connected = false (testConnection).
C33_BoundedRetries ==
  [][/\ call'.maxRetries < 1 => C33_Executions' = 0
     /\ (call'.maxRetries >= 1 /\ call'.pc # "idle")
       => /\ C33_Executions' <= call'.maxRetries
          /\ call'.attempt <= call'.maxRetries
          /\ call.pc # "idle"
               => \/ call'.attempt = call.attempt + 1 /\ call.pc = "wait"
                  \/ /\ call'.attempt = call.attempt
                     /\ call.pc = "try"
                     /\ call'.pc \in {"wait", "returned", "thrown"}
          /\ (call.pc = "try" /\ call'.errors = call.errors)
               => /\ call'.pc = "returned"
                  /\ call'.outcome = IF call.fn = "testConnection"
                                     THEN "connected: true" ELSE "result"
          /\ (call.pc = "try" /\ call'.errors # call.errors)
               => IF Len(call'.errors) < call.maxRetries
                  THEN call'.pc = "wait"
                  ELSE IF call.fn = "testConnection"
                  THEN call'.pc = "returned" /\ call'.outcome = "connected: false"
                  ELSE /\ call'.pc = "thrown"
                       /\ call'.outcome = call'.errors[Len(call'.errors)]]_vars

\* sqlWithRetry with three attempts allowed failed twice on the connection and a
\* third time on a unique violation, and threw that last error.
C33_Witness ==
  /\ call.fn = "sqlWithRetry" /\ call.pc = "thrown"
  /\ call.maxRetries = DefaultTestRetries
  /\ call.errors = <<"connection", "connection", "unique_violation">>
  /\ call.outcome = "unique_violation"

\* C34: a finished call of sqlWithRetry or testConnection has returned a
\* query result, thrown, or returned an object with a connected field: it
\* has not returned undefined.
C34_NeverUndefined ==
  call.pc = "returned" => call.outcome # "undefined"

\* C35: in every reachable state no user has is_pro = true together with a
\* payment of status 'pending'.
C35_ProHoldsNoPending ==
  \A i \in DOMAIN payments :
    payments[i].status = "pending" => ~users[payments[i].clerk_user_id].is_pro

\* C36: processed_at and admin_id are unset exactly when the payment is
\* 'pending', and only a 'rejected' payment carries a rejection_reason.
C36_ReviewMetadataMatchesStatus ==
  \A i \in DOMAIN payments :
    /\ payments[i].status = "pending"
         <=> (payments[i].processed_at = NULL /\ payments[i].admin_id = "")
    /\ payments[i].processed_at = NULL <=> payments[i].admin_id = ""
    /\ payments[i].rejection_reason # "" => payments[i].status = "rejected"

\* C37: no step sets a user's is_pro from true back to false, and no step
\* changes a pro_since that is already set.
C37_ProMonotonicStampedOnce ==
  [][\A u \in Users :
       /\ users[u].is_pro => users'[u].is_pro
       /\ users[u].pro_since # NULL => users'[u].pro_since = users[u].pro_since]_vars

\* C38: approve-payment creates at most one user_subscriptions row for a
\* payment (the table never holds more rows than there are approved
\* payments), and no two requests report the approval of the same payment.
C38_OneSubscriptionPerPayment ==
  /\ Len(user_subscriptions)
       <= Cardinality({j \in DOMAIN payment_submissions :
                         payment_submissions[j].status = "approved"})
  /\ \A r, q \in Req :
       (/\ areq[r].pc = "done" /\ areq[r].resp = PaymentApproved
        /\ areq[q].pc = "done" /\ areq[q].resp = PaymentApproved
        /\ areq[r].paymentId = areq[q].paymentId) => r = q

\* C39: the verify and reject handlers of paymentFlow.js keep every status
\* inside {pending, approved, rejected}; a reject that answers for a payment
\* that is missing or not pending reports no success and changes no payment;
\* a verify that reports success leaves the payment 'approved'.
C39_VerifyRejectOnlyPending ==
  [][/\ \A j \in DOMAIN payment_submissions' :
          payment_submissions'[j].status \in {"pending", "approved", "rejected"}
     /\ \A r \in Req :
          (/\ areq[r].pc = "pr_update"
           /\ areq'[r].pc = "done"
           /\ \/ areq[r].paymentId \notin DOMAIN payment_submissions
              \/ payment_submissions[areq[r].paymentId].status # "pending")
            => /\ areq'[r].resp # PaymentRejected
               /\ payment_submissions' = payment_submissions
     /\ \A r \in Req :
          (/\ areq'[r] # areq[r]
           /\ areq'[r].op = "verify"
           /\ areq'[r].resp = PaymentVerified)
            => payment_submissions'[areq'[r].paymentId].status = "approved"]_vars

\* C40: when GET /my-subscription and GET /onboarding-status have both
\* answered for one user in one state of the store, reached by requests
\* handled one at a time, the one reports isPro true exactly when the other
\* does.
C40_EntitlementReadsAgree ==
  (/\ oreq.pc = "done" /\ oreq.resp # OnboardingFailed
   /\ mreq.pc = "done" /\ mreq.resp # MySubscriptionFailed
   /\ oreq.user_id = mreq.user_id)
    => (mreq.resp = IsPro <=> oreq.resp = HasSubscription)

\* Both reads answered isPro true for a user whose earlier subscription row
\* is no longer active.
C40_Witness ==
  /\ oreq.pc = "done" /\ oreq.resp = HasSubscription
  /\ mreq.pc = "done" /\ mreq.resp = IsPro
  /\ oreq.user_id = mreq.user_id
  /\ \E i \in DOMAIN user_subscriptions :
       /\ user_subscriptions[i].user_id = mreq.user_id
       /\ user_subscriptions[i].status # "active"

\* C31: a payment-history request changes no table, and its answer lists
\* exactly the payments owned by the asking user, each once, from the last
\* submitted to the first.
C31_HistoryIsOwnPaymentsNewestFirst ==
  [][hreq' # hreq
       => /\ UNCHANGED <<payments, users, payment_submissions, user_trials,
                         user_subscriptions>>
          /\ (hreq'.pc = "done" /\ hreq'.error = "")
               => LET h == hreq'.resp
                      own == IF hreq'.router = "paymentFlow"
                             THEN {i \in DOMAIN payments :
                                     payments[i].clerk_user_id = hreq'.user_id}
                             ELSE {i \in DOMAIN payment_submissions :
                                     payment_submissions[i].user_id = hreq'.user_id}
                  IN /\ {h[k] : k \in DOMAIN h} = own
                     /\ Len(h) = Cardinality(own)
                     /\ \A k, l \in DOMAIN h : k < l => h[k] > h[l]]_vars

\* u2 was answered with the one payment it owns while the ledger also holds
\* a payment of u1.
C31_Witness ==
  /\ hreq.pc = "done"
  /\ hreq.router = "paymentFlow"
  /\ hreq.user_id = "u2"
  /\ hreq.resp = <<2>>
  /\ Len(payments) = 2
  /\ payments[1].clerk_user_id = "u1"

====
